---- MODULE Spec2Model ----
(***************************************************************************)
(* A state-machine model of the pipeline simulator of uiCA.py: front end   *)
(* (simple front end, predecoder, legacy decoder, microcode sequencer,     *)
(* stack engine), renamer, reorder buffer and scheduler, advanced by the   *)
(* main loop one clock cycle at a time.                                    *)
(*                                                                         *)
(* One behaviour is one simulation: Init draws the instruction list and    *)
(* the front-end mode, and the five steps of a cycle (renamer, reorder     *)
(* buffer, scheduler, front-end refill, clock tick) follow FrontEnd.cycle  *)
(* and main().                                                             *)
(***************************************************************************)
EXTENDS Integers, Sequences, FiniteSets, TLC

\* Python's None, for cycle stamps, ports and references that are not set.
None == -9

---------------------------------------------------------------------------
(* The microarchitecture configuration (uArchConfig), scaled down.         *)

IssueWidth == 2
RetireWidth == 2
RBWidth == 4
RSWidth == 4
WideRBWidth == 12
WideRSWidth == 8
IDQWidth == 6
DSBWidth == 2
IQWidth == 6
PreDecodeWidth == 5
NDecoders == 2
PredecodeDecodeDelay == 1
IssueDispatchDelay == 1
\* moveEliminationGPRSlots (a number; 'unlimited' is not modelled)
MoveEliminationGPRSlots == 1
MoveEliminationPipelineLength == 2
\* moveEliminationSIMDSlots (a number)
MoveEliminationSIMDSlots == 1
MoveEliminationGPRAllAliasesMustBeOverwritten == FALSE
\* uArchConfig.allPorts of an 8-port microarchitecture
AllPorts == <<0, 1, 2, 3, 4, 5, 6, 7>>
AllPorts10 == <<0, 1, 2, 3, 4, 5, 6, 7, 8, 9>>
AllPorts6 == <<0, 1, 2, 3, 4, 5>>
StackSyncUopPorts == <<0, 1>>
\* the main loop is cut off after this many cycles
MaxClock == 44

---------------------------------------------------------------------------
(* Small helpers.                                                          *)

Max(a, b) == IF a >= b THEN a ELSE b
Abs(a) == IF a >= 0 THEN a ELSE 0 - a
Min(a, b) == IF a <= b THEN a ELSE b
SetMin(S) == CHOOSE x \in S : \A y \in S : x <= y
Range(s) == {s[i] : i \in 1..Len(s)}
IndexOf(s, x) == CHOOSE i \in 1..Len(s) : s[i] = x

RECURSIVE SumSeq(_)
SumSeq(s) == IF s = <<>> THEN 0 ELSE Head(s) + SumSeq(Tail(s))

RECURSIVE Flatten(_)
Flatten(ss) == IF ss = <<>> THEN <<>> ELSE Head(ss) \o Flatten(Tail(ss))

\* the elements of a set of integers as an ascending sequence
RECURSIVE SortedSeq(_)
SortedSeq(S) == IF S = {} THEN <<>> ELSE <<SetMin(S)>> \o SortedSeq(S \ {SetMin(S)})

\* all orders a set can be iterated in
RECURSIVE Perms(_)
Perms(S) == IF S = {} THEN {<<>>} ELSE UNION {{<<x>> \o p : p \in Perms(S \ {x})} : x \in S}

---------------------------------------------------------------------------
(* Operands and the instruction table.                                     *)

\* RegOperand: canonical register, size in bits, a high-8 register (AH..DH)
Reg(r) == [reg |-> r, size |-> 64, h8 |-> FALSE, imp |-> FALSE]
RegH8(r) == [reg |-> r, size |-> 8, h8 |-> TRUE, imp |-> FALSE]
RegImp(r) == [reg |-> r, size |-> 64, h8 |-> FALSE, imp |-> TRUE]

PseudoOps == {"p1", "p2"}

\* the vector registers of the model ('MM' in the canonical name); the other
\* registers are general-purpose registers (GPRegs)
SIMDRegs == {"XMM0", "XMM1", "XMM2"}
IsSIMD(r) == r \in SIMDRegs
IsGPR(r) == r \notin SIMDRegs /\ r \notin PseudoOps

NoMem == [some |-> FALSE, base |-> "", index |-> "", scale |-> 0, disp |-> 0]
MemAddr(b, i, s, d) == [some |-> TRUE, base |-> b, index |-> i, scale |-> s, disp |-> d]

\* UopProperties.__init__
UopProperties(ports, ins, outs, div, kind, mem) ==
    [ports |-> ports, ins |-> ins, outs |-> outs, div |-> div,
     load |-> kind = "load", sta |-> kind = "sta", std |-> kind = "std", mem |-> mem,
     first |-> FALSE, last |-> FALSE, merge |-> kind = "merge", sync |-> kind = "sync"]

Out(op, lat) == [op |-> op, lat |-> lat]

\* Instr.__init__ with the defaults of UnknownInstr; pl is the list of uops that
\* computeUopProperties derives from the port data (before padding and flags)
UnknownInstr ==
    [str |-> "", len |-> 8, posNominalOpcode |-> 0, pl |-> <<>>, uops |-> 0,
     retireSlots |-> 1, uopsMITE |-> 1, uopsMS |-> 0, TP |-> None,
     inRegs |-> <<>>, outRegs |-> <<>>, memAddrRegs |-> <<>>,
     implicitRSPChange |-> 0, mayBeEliminated |-> FALSE, isMov |-> FALSE,
     complexDecoder |-> FALSE, nAvailableSimpleDecoders |-> NDecoders,
     lcpStall |-> FALSE, isBranchInstr |-> FALSE, isSerializingInstr |-> FALSE,
     isLoadSerializing |-> FALSE, isStoreSerializing |-> FALSE,
     macroFusedWithPrevInstr |-> FALSE, macroFusedWithNextInstr |-> FALSE,
     macroFusible |-> FALSE, immediate |-> 0]

\* ADD RAX, RBX
ADD == [UnknownInstr EXCEPT !.str = "ADD", !.uops = 1, !.TP = 1,
          !.pl = <<UopProperties(<<0, 1>>, <<"RAX", "RBX">>, <<Out("RAX", 1)>>, 0, "alu", NoMem)>>,
          !.inRegs = <<Reg("RAX"), Reg("RBX")>>, !.outRegs = <<Reg("RAX")>>]

\* ADD RAX, RBX with its real length of three bytes
ADD3 == [ADD EXCEPT !.str = "ADD3", !.len = 3]

\* ADD RAX, [RAX+RBX]: a load micro-fused with an ALU uop
LDADD == [UnknownInstr EXCEPT !.str = "LDADD", !.uops = 2, !.TP = 1,
          !.pl = <<UopProperties(<<2, 3>>, <<"RAX", "RBX">>, <<Out("p1", 5)>>, 0, "load",
                                 MemAddr("RAX", "RBX", 1, 0)),
                   UopProperties(<<0, 1>>, <<"RAX", "p1">>, <<Out("RAX", 1)>>, 0, "alu", NoMem)>>,
          !.inRegs = <<Reg("RAX")>>, !.outRegs = <<Reg("RAX")>>,
          !.memAddrRegs = <<Reg("RAX"), Reg("RBX")>>]

\* MOV [RBX], RCX: store-address and store-data uop in one fused uop
ST == [UnknownInstr EXCEPT !.str = "ST", !.uops = 2, !.TP = 1, !.isMov = TRUE,
          !.pl = <<UopProperties(<<2, 3, 7>>, <<"RBX">>, <<>>, 0, "sta", MemAddr("RBX", "", 1, 0)),
                   UopProperties(<<4>>, <<"RCX">>, <<>>, 0, "std", NoMem)>>,
          !.inRegs = <<Reg("RCX")>>, !.memAddrRegs = <<Reg("RBX")>>]

\* MOV [RBX+disp], RCX on a machine with 10 ports: the store-address uop on
\* port 7 or 8, the store-data uop on port 4 or 9
ST10(name, disp) ==
    [UnknownInstr EXCEPT !.str = name, !.uops = 2, !.TP = 1, !.isMov = TRUE,
          !.pl = <<UopProperties(<<7, 8>>, <<"RBX">>, <<>>, 0, "sta", MemAddr("RBX", "", 1, disp)),
                   UopProperties(<<4, 9>>, <<"RCX">>, <<>>, 0, "std", NoMem)>>,
          !.inRegs = <<Reg("RCX")>>, !.memAddrRegs = <<Reg("RBX")>>]
ST0 == ST10("ST0", 0)
ST8 == ST10("ST8", 8)
ST64 == ST10("ST64", 64)

\* ADD RAX, RBX on a machine with 10 ports
ADD10 == [UnknownInstr EXCEPT !.str = "ADD10", !.uops = 1, !.TP = 1,
          !.pl = <<UopProperties(<<0, 1, 5, 6>>, <<"RAX", "RBX">>, <<Out("RAX", 1)>>, 0, "alu", NoMem)>>,
          !.inRegs = <<Reg("RAX"), Reg("RBX")>>, !.outRegs = <<Reg("RAX")>>]

\* MOV RCX, [RBX]: a load from the address ST writes
LD == [UnknownInstr EXCEPT !.str = "LD", !.uops = 1, !.TP = 1, !.isMov = TRUE,
          !.pl = <<UopProperties(<<2, 3>>, <<"RBX">>, <<Out("RCX", 5)>>, 0, "load",
                                 MemAddr("RBX", "", 1, 0))>>,
          !.outRegs = <<Reg("RCX")>>, !.memAddrRegs = <<Reg("RBX")>>]

\* MOV RBX, RAX: a move the renamer may eliminate
MOV == [UnknownInstr EXCEPT !.str = "MOV", !.uops = 1, !.TP = 1, !.isMov = TRUE,
          !.mayBeEliminated = TRUE,
          !.pl = <<UopProperties(<<0, 1>>, <<"RAX">>, <<Out("RBX", 1)>>, 0, "alu", NoMem)>>,
          !.inRegs = <<Reg("RAX")>>, !.outRegs = <<Reg("RBX")>>]

\* MOVAPS XMM1, XMM0: a vector move the renamer may eliminate
MOVAPS == [UnknownInstr EXCEPT !.str = "MOVAPS", !.len = 3, !.uops = 1, !.TP = 1, !.isMov = TRUE,
          !.mayBeEliminated = TRUE,
          !.pl = <<UopProperties(<<0, 1, 5>>, <<"XMM0">>, <<Out("XMM1", 1)>>, 0, "alu", NoMem)>>,
          !.inRegs = <<Reg("XMM0")>>, !.outRegs = <<Reg("XMM1")>>]

\* PADDD XMM0, XMM1
PADDD == [UnknownInstr EXCEPT !.str = "PADDD", !.len = 4, !.uops = 1, !.TP = 1,
          !.pl = <<UopProperties(<<0, 1, 5>>, <<"XMM0", "XMM1">>, <<Out("XMM0", 1)>>, 0, "alu", NoMem)>>,
          !.inRegs = <<Reg("XMM0"), Reg("XMM1")>>, !.outRegs = <<Reg("XMM0")>>]

\* DIV: its first port combination is listed as p01 and carries the divider cycles
DIV == [UnknownInstr EXCEPT !.str = "DIV", !.uops = 1, !.TP = 2,
          !.pl = <<UopProperties(<<0, 1>>, <<"RCX">>, <<Out("RCX", 3)>>, 2, "alu", NoMem)>>,
          !.inRegs = <<Reg("RCX")>>, !.outRegs = <<Reg("RCX")>>]

\* a second division, of registers no instruction of its program writes: it keeps
\* the divider for three cycles and every instance has its inputs ready at once
DIVB == [UnknownInstr EXCEPT !.str = "DIVB", !.len = 3, !.uops = 1, !.TP = 1,
          !.pl = <<UopProperties(<<0>>, <<"RBX">>, <<Out("RDX", 3)>>, 3, "alu", NoMem)>>,
          !.inRegs = <<Reg("RBX")>>, !.outRegs = <<Reg("RDX")>>]

\* IMUL RDX, RDX: a multiplication, which only port 1 executes
IMUL == [UnknownInstr EXCEPT !.str = "IMUL", !.uops = 1, !.TP = 1,
          !.pl = <<UopProperties(<<1>>, <<"RDX">>, <<Out("RDX", 3)>>, 0, "alu", NoMem)>>,
          !.inRegs = <<Reg("RDX")>>, !.outRegs = <<Reg("RDX")>>]

\* POPCNT dst, src: two instructions of this form have the same instrStr
POPCNT(dst, src) ==
    [UnknownInstr EXCEPT !.str = "POPCNT", !.uops = 1, !.TP = 1,
          !.pl = <<UopProperties(<<1>>, <<src>>, <<Out(dst, 3)>>, 0, "alu", NoMem)>>,
          !.inRegs = <<Reg(src)>>, !.outRegs = <<Reg(dst)>>]

\* MOVSX RAX, EDX
MOVSX == [UnknownInstr EXCEPT !.str = "MOVSX", !.uops = 1, !.TP = 1,
          !.pl = <<UopProperties(<<0, 1, 5, 6>>, <<"RDX">>, <<Out("RAX", 1)>>, 0, "alu", NoMem)>>,
          !.inRegs = <<Reg("RDX")>>, !.outRegs = <<Reg("RAX")>>]

\* LEA RCX, [RDX]
LEA == [UnknownInstr EXCEPT !.str = "LEA", !.uops = 1, !.TP = 1,
          !.pl = <<UopProperties(<<1, 5>>, <<"RDX">>, <<Out("RCX", 1)>>, 0, "alu", NoMem)>>,
          !.inRegs = <<Reg("RDX")>>, !.outRegs = <<Reg("RCX")>>]

\* XCHG AH, BH: writes two high-8 registers
XCHGH == [UnknownInstr EXCEPT !.str = "XCHGH", !.uops = 1, !.TP = 1,
          !.pl = <<UopProperties(<<0, 1>>, <<"RAX", "RBX">>, <<Out("RAX", 1), Out("RBX", 1)>>, 0,
                                 "alu", NoMem)>>,
          !.inRegs = <<RegH8("RAX"), RegH8("RBX")>>, !.outRegs = <<RegH8("RAX"), RegH8("RBX")>>]

\* PUSH RCX: implicit RSP change
PUSH == [UnknownInstr EXCEPT !.str = "PUSH", !.uops = 2, !.TP = 1,
          !.implicitRSPChange = -8,
          !.pl = <<UopProperties(<<2, 3, 7>>, <<"RSP">>, <<>>, 0, "sta", MemAddr("RSP", "", 1, 0)),
                   UopProperties(<<4>>, <<"RCX">>, <<>>, 0, "std", NoMem)>>,
          !.inRegs = <<Reg("RCX")>>, !.memAddrRegs = <<RegImp("RSP")>>]

\* PUSH 0x11223344: five bytes, no register input
PUSHI == [PUSH EXCEPT !.str = "PUSHI", !.len = 5,
          !.pl = <<UopProperties(<<2, 3, 7>>, <<"RSP">>, <<>>, 0, "sta", MemAddr("RSP", "", 1, 0)),
                   UopProperties(<<4>>, <<>>, <<>>, 0, "std", NoMem)>>,
          !.inRegs = <<>>]

\* POP RCX
POP == [UnknownInstr EXCEPT !.str = "POP", !.uops = 1, !.TP = 1,
          !.implicitRSPChange = 8,
          !.pl = <<UopProperties(<<2, 3>>, <<"RSP">>, <<Out("RCX", 5)>>, 0, "load",
                                 MemAddr("RSP", "", 1, 0))>>,
          !.outRegs = <<Reg("RCX")>>, !.memAddrRegs = <<RegImp("RSP")>>]

\* PUSH QWORD PTR [RSP+8]: reads RSP in its memory address and changes RSP implicitly
PUSHM == [UnknownInstr EXCEPT !.str = "PUSHM", !.len = 4, !.uops = 3, !.TP = 1,
          !.retireSlots = 2, !.uopsMITE = 2, !.complexDecoder = TRUE,
          !.implicitRSPChange = -8,
          !.pl = <<UopProperties(<<2, 3>>, <<"RSP">>, <<Out("p1", 5)>>, 0, "load",
                                 MemAddr("RSP", "", 1, 8)),
                   UopProperties(<<2, 3, 7>>, <<"RSP">>, <<>>, 0, "sta", MemAddr("RSP", "", 1, 0)),
                   UopProperties(<<4>>, <<"p1">>, <<>>, 0, "std", NoMem)>>,
          !.memAddrRegs = <<Reg("RSP"), RegImp("RSP")>>]

\* ADD RAX, RSP: reads RSP explicitly
ADDSP == [UnknownInstr EXCEPT !.str = "ADDSP", !.len = 3, !.uops = 1, !.TP = 1,
          !.pl = <<UopProperties(<<0, 1>>, <<"RAX", "RSP">>, <<Out("RAX", 1)>>, 0, "alu", NoMem)>>,
          !.inRegs = <<Reg("RAX"), Reg("RSP")>>, !.outRegs = <<Reg("RAX")>>]

\* LFENCE: serializing and load-serializing
LFENCE == [UnknownInstr EXCEPT !.str = "LFENCE", !.len = 3, !.uops = 1, !.TP = 2,
          !.isSerializingInstr = TRUE, !.isLoadSerializing = TRUE,
          !.pl = <<UopProperties(<<5>>, <<>>, <<>>, 0, "alu", NoMem)>>]

\* MFENCE: load- and store-serializing
MFENCE == [UnknownInstr EXCEPT !.str = "MFENCE", !.len = 3, !.uops = 1, !.TP = 2,
          !.isLoadSerializing = TRUE, !.isStoreSerializing = TRUE,
          !.pl = <<UopProperties(<<5>>, <<>>, <<>>, 0, "alu", NoMem)>>]

\* ADD AX, imm16: a length-changing prefix, 5 bytes
LCPADD == [UnknownInstr EXCEPT !.str = "LCPADD", !.len = 5, !.uops = 1, !.TP = 1,
          !.lcpStall = TRUE, !.posNominalOpcode = 1,
          !.pl = <<UopProperties(<<0, 1>>, <<"RAX">>, <<Out("RAX", 1)>>, 0, "alu", NoMem)>>,
          !.inRegs = <<Reg("RAX")>>, !.outRegs = <<Reg("RAX")>>]

\* a microcoded instruction: one uop from the decoder, two from the sequencer
MSI == [UnknownInstr EXCEPT !.str = "MSI", !.len = 7, !.uops = 3, !.TP = 1,
          !.retireSlots = 3, !.uopsMITE = 1, !.uopsMS = 2, !.complexDecoder = TRUE,
          !.nAvailableSimpleDecoders = 0,
          !.pl = <<UopProperties(<<0, 1>>, <<"RCX">>, <<Out("RCX", 1)>>, 0, "alu", NoMem),
                   UopProperties(<<5>>, <<"RCX">>, <<>>, 0, "alu", NoMem),
                   UopProperties(<<6>>, <<"RCX">>, <<>>, 0, "alu", NoMem)>>,
          !.inRegs = <<Reg("RCX")>>, !.outRegs = <<Reg("RCX")>>]

\* JNZ rel8: the branch that closes a loop
JNZ == [UnknownInstr EXCEPT !.str = "JNZ", !.len = 2, !.uops = 1, !.TP = 1, !.isBranchInstr = TRUE,
          !.pl = <<UopProperties(<<0, 6>>, <<>>, <<>>, 0, "alu", NoMem)>>]

\* an instruction whose table entry has three ALU uops and one retire slot
TRI == [UnknownInstr EXCEPT !.str = "TRI", !.len = 4, !.uops = 3, !.TP = 1,
          !.retireSlots = 1, !.uopsMITE = 1, !.uopsMS = 0,
          !.pl = <<UopProperties(<<0, 1>>, <<"RAX">>, <<Out("p1", 1)>>, 0, "alu", NoMem),
                   UopProperties(<<5>>, <<"p1">>, <<Out("p2", 1)>>, 0, "alu", NoMem),
                   UopProperties(<<0, 1>>, <<"p2">>, <<Out("RAX", 1)>>, 0, "alu", NoMem)>>,
          !.inRegs = <<Reg("RAX")>>, !.outRegs = <<Reg("RAX")>>]

\* a microcoded instruction that reads RSP: all five uops from the sequencer
MSO == [UnknownInstr EXCEPT !.str = "MSO", !.len = 4, !.uops = 5, !.TP = 1,
          !.retireSlots = 5, !.uopsMITE = 0, !.uopsMS = 5, !.complexDecoder = TRUE,
          !.nAvailableSimpleDecoders = 0,
          !.pl = <<UopProperties(<<0, 1>>, <<"RSP">>, <<Out("RCX", 1)>>, 0, "alu", NoMem),
                   UopProperties(<<5>>, <<"RCX">>, <<>>, 0, "alu", NoMem),
                   UopProperties(<<6>>, <<"RCX">>, <<>>, 0, "alu", NoMem),
                   UopProperties(<<0, 1>>, <<"RCX">>, <<>>, 0, "alu", NoMem),
                   UopProperties(<<5>>, <<"RCX">>, <<>>, 0, "alu", NoMem)>>,
          !.inRegs = <<Reg("RSP")>>, !.outRegs = <<Reg("RCX")>>]

\* an instruction whose table entry has uopsMITE = 1, uopsMS = 0 and one retire
\* slot more than the renamer issues per cycle: IssueWidth + 1 ALU uops
WIDE == [UnknownInstr EXCEPT !.str = "WIDE", !.uops = IssueWidth + 1, !.TP = 1,
          !.retireSlots = IssueWidth + 1, !.uopsMITE = 1, !.uopsMS = 0,
          !.pl = [i \in 1..(IssueWidth + 1) |->
                     UopProperties(<<0, 1>>, <<"RCX">>, <<>>, 0, "alu", NoMem)],
          !.inRegs = <<Reg("RCX")>>]

\* XOR RBX, RBX: a zero idiom, an instruction without uops that writes a register
XORZ == [UnknownInstr EXCEPT !.str = "XOR", !.len = 3, !.TP = 1,
          !.outRegs = <<Reg("RBX")>>]

\* a two-byte no-operation without uops in the table (an unknown instruction)
NOP2 == [UnknownInstr EXCEPT !.len = 2]

\* a 15-byte ADD, to make instructions cross 16-byte boundaries
ADD15 == [ADD EXCEPT !.len = 15, !.posNominalOpcode = 4]

---------------------------------------------------------------------------
(* computeUopProperties and adjustLatenciesAndAddMergeUops: the processed  *)
(* instruction list.                                                       *)

\* the uops of an instruction are padded to its retire slots, and the first and
\* the last one are flagged
\* a variant without the padding uops of lines 1483-1485
UopPropertiesListUnpadded(instr) ==
    [k \in 1..Len(instr.pl) |-> [instr.pl[k] EXCEPT !.first = (k = 1), !.last = (k = Len(instr.pl))]]

UopPropertiesList(instr) ==
    LET padded == instr.pl \o [k \in 1..(instr.retireSlots - Len(instr.pl)) |->
                                 UopProperties(<<>>, <<>>, <<>>, 0, "alu", NoMem)]
    IN  [k \in 1..Len(padded) |->
            [padded[k] EXCEPT !.first = (k = 1), !.last = (k = Len(padded))]]

ABCD == {"RAX", "RBX", "RCX", "RDX"}

\* the high-8 part of processInstrRegOutputs: ops is a list of <<operand, isOutput>>
RECURSIVE High8Ops(_, _)
High8Ops(clean, ops) ==
    IF ops = <<>> THEN clean
    ELSE LET op == Head(ops)[1]
             isOut == Head(ops)[2]
             c2 == IF op.reg \in ABCD /\ op.size > 8 THEN [clean EXCEPT ![op.reg] = TRUE]
                   ELSE IF op.h8 /\ isOut THEN [clean EXCEPT ![op.reg] = FALSE]
                   ELSE clean
         IN  High8Ops(c2, Tail(ops))

processInstrRegOutputs(clean, instr) ==
    High8Ops(clean, [k \in 1..Len(instr.inRegs) |-> <<instr.inRegs[k], FALSE>>]
                    \o [k \in 1..Len(instr.memAddrRegs) |-> <<instr.memAddrRegs[k], FALSE>>]
                    \o [k \in 1..Len(instr.outRegs) |-> <<instr.outRegs[k], TRUE>>])

\* high8RegClean before the n-th call of processInstrRegOutputs; the list is
\* traversed once completely before the second pass starts
RECURSIVE High8Clean(_, _)
High8Clean(list, n) ==
    IF n = 0 THEN [r \in ABCD |-> TRUE]
    ELSE processInstrRegOutputs(High8Clean(list, n - 1), list[((n - 1) % Len(list)) + 1])

\* the register-merge uops of the instruction at position i of the list
RegMergeUopPropertiesList(list, i) ==
    LET clean == High8Clean(list, Len(list) + i - 1)
        inOps == list[i].inRegs \o list[i].memAddrRegs
        need == SelectSeq(inOps, LAMBDA op : op.reg \in ABCD /\ op.size > 8 /\ ~clean[op.reg])
    IN  [k \in 1..Len(need) |->
            UopProperties(<<1, 5>>, <<need[k].reg>>, <<Out(need[k].reg, 1)>>, 0, "merge", NoMem)]

\* a uop with a high-8 register input that is clean gets its latencies raised by one
AdjustedLatencies(list, i, prop) ==
    LET clean == High8Clean(list, Len(list) + i - 1)
        bump == \E k \in 1..Len(list[i].inRegs) :
                    /\ list[i].inRegs[k].h8
                    /\ list[i].inRegs[k].reg \in Range(prop.ins)
                    /\ clean[list[i].inRegs[k].reg]
    IN  IF bump THEN [prop EXCEPT !.outs = [k \in 1..Len(prop.outs) |->
                                               Out(prop.outs[k].op, prop.outs[k].lat + 1)]]
        ELSE prop

\* the instruction list as the simulation sees it
ProcessedInstructions(list) ==
    [i \in 1..Len(list) |->
        [instr |-> list[i],
         props |-> LET pl == UopPropertiesList(list[i])
                   IN  [k \in 1..Len(pl) |-> AdjustedLatencies(list, i, pl[k])],
         regMergeProps |-> RegMergeUopPropertiesList(list, i)]]

---------------------------------------------------------------------------
(* InstrInstance.__generateUops: the lamination tree, as lists of indices  *)
(* into the instruction's UopPropertiesList.                               *)

HasMemPort(prop) == prop.ports # <<>> /\ \E p \in Range(prop.ports) : p \in {2, 3, 7}

RECURSIVE FuseUops(_, _, _, _)
FuseUops(props, q, i, retireSlots) ==
    IF i >= retireSlots - 1 THEN <<q>>
    ELSE IF HasMemPort(props[Head(q)]) /\ Len(Tail(q)) >= retireSlots - i
         THEN <<<<q[1], q[2]>>>> \o FuseUops(props, Tail(Tail(q)), i + 1, retireSlots)
         ELSE <<<<q[1]>>>> \o FuseUops(props, Tail(q), i + 1, retireSlots)

RECURSIVE LaminateUops(_, _, _, _)
LaminateUops(props, fq, i, nLam) ==
    IF i >= nLam - 1 THEN <<fq>>
    ELSE IF Len(Head(fq)) = 1 /\ HasMemPort(props[Head(fq)[1]]) /\ Len(Tail(fq)) >= nLam - i
         THEN <<<<fq[1], fq[2]>>>> \o LaminateUops(props, Tail(Tail(fq)), i + 1, nLam)
         ELSE <<<<fq[1]>>>> \o LaminateUops(props, Tail(fq), i + 1, nLam)

\* the laminated uops of an instance: a list of lists (fused) of lists of indices
generateUops(pi) ==
    IF pi.props = <<>> THEN <<>>
    ELSE LET fu == FuseUops(pi.props, [k \in 1..Len(pi.props) |-> k], 0, pi.instr.retireSlots)
             nLam == Min(pi.instr.uopsMITE + pi.instr.uopsMS, Len(fu))
         IN  LaminateUops(pi.props, fu, 0, nLam)

---------------------------------------------------------------------------
(* The state of one simulation.                                            *)

VARIABLES
    instructions,    \* the processed instruction list
    simpleFrontEnd,  \* the -simpleFrontEnd option
    uArchConfig,     \* the microarchitecture: RBWidth, RSWidth, allPorts
    clock,           \* the global clock
    pc,              \* the position inside the current cycle
    uops,            \* all Uop objects, by idx
    fused,           \* all FusedUop objects
    lams,            \* all LaminatedUop objects
    insts,           \* all InstrInstance objects
    renOps,          \* all RenamedOperand objects
    sbs,             \* all StoreBufferEntry objects
    IDQ,             \* FrontEnd.IDQ: laminated uops
    RB,              \* ReorderBuffer.uops: fused uops
    retireQueue,     \* fused uops retired in this cycle
    issueUops,       \* the fused uops the renamer issued in this cycle
    ren,             \* the fields of the Renamer
    sched,           \* the fields of the Scheduler
    fe,              \* the fields of FrontEnd, PreDecoder, Decoder, MicrocodeSequencer
    perf,            \* the perfEvents of the current cycle
    rnd              \* main(): the round of the uop retired last

vars == <<instructions, simpleFrontEnd, uArchConfig, clock, pc, uops, fused, lams, insts, renOps, sbs,
          IDQ, RB, retireQueue, issueUops, ren, sched, fe, perf, rnd>>

\* Python dictionaries are functions; d.get(k, default) and d[k] = v
Get(d, k, default) == IF k \in DOMAIN d THEN d[k] ELSE default
Put(d, k, v) == [x \in DOMAIN d \cup {k} |-> IF x = k THEN v ELSE d[x]]
Del(d, K) == [x \in DOMAIN d \ K |-> d[x]]
EmptyDict == [x \in {} |-> 0]

\* Uop.__init__, FusedUop.__init__, LaminatedUop.__init__, InstrInstance.__init__
Uop(ip, instrI, kind, pi, f) ==
    [ip |-> ip, instrI |-> instrI, kind |-> kind, pi |-> pi, fusedUop |-> f,
     actualPort |-> None, eliminated |-> FALSE, rin |-> <<>>, rout |-> <<>>, sb |-> None,
     readyForDispatch |-> None, dispatched |-> None, executed |-> None]
FusedUop(us, l) == [uops |-> us, lam |-> l, issued |-> None, retired |-> None, retireIdx |-> None]
LaminatedUop(fs) == [fused |-> fs, addedToIDQ |-> None, uopSource |-> "None"]

\* StackSyncUop.__init__
StackSyncUopProp ==
    [UopProperties(StackSyncUopPorts, <<"RSP">>, <<Out("RSP", 1)>>, 0, "sync", NoMem)
        EXCEPT !.first = TRUE]

\* uop.prop and uop.prop.instr
PropOf(u) ==
    IF u.kind = "sync" THEN StackSyncUopProp
    ELSE IF u.kind = "merge" THEN instructions[u.ip].regMergeProps[u.pi]
    ELSE instructions[u.ip].props[u.pi]
InstrOf(u) == instructions[u.ip].instr

\* LaminatedUop.getUnfusedUops, on the objects of m
UnfusedOfLam(m, l) == Flatten([k \in 1..Len(m.lams[l].fused) |-> m.fused[m.lams[l].fused[k]].uops])
UnfusedOfFused(m, fs) == Flatten([k \in 1..Len(fs) |-> m.fused[fs[k]].uops])

\* the number of elements in the lists before the k-th one
RECURSIVE Offset(_, _)
Offset(ss, k) == IF k <= 1 THEN 0 ELSE Len(ss[k - 1]) + Offset(ss, k - 1)

\* InstrInstance(instr, address, rnd): the new instance with its uops
NewInstance(m, ip, addr, r) ==
    LET tree == generateUops(instructions[ip])
        fl == Flatten(tree)
        iid == Len(m.insts) + 1
        ub == Len(m.uops)
        fb == Len(m.fused)
        lb == Len(m.lams)
        fusedOf(k) == CHOOSE j \in 1..Len(fl) : k \in Range(fl[j])
        lamOf(j) == CHOOSE l \in 1..Len(tree) : Offset(tree, l) < j /\ j <= Offset(tree, l) + Len(tree[l])
    IN  [m EXCEPT
           !.uops = @ \o [k \in 1..Len(instructions[ip].props) |-> Uop(ip, iid, "own", k, fb + fusedOf(k))],
           !.fused = @ \o [j \in 1..Len(fl) |-> FusedUop([x \in 1..Len(fl[j]) |-> ub + fl[j][x]], lb + lamOf(j))],
           !.lams = @ \o [l \in 1..Len(tree) |->
                            LaminatedUop([x \in 1..Len(tree[l]) |-> fb + Offset(tree, l) + x])],
           !.insts = Append(@, [ip |-> ip, address |-> addr, rnd |-> r,
                                uops |-> [l \in 1..Len(tree) |-> lb + l],
                                regMergeUops |-> <<>>, stackSyncUops |-> <<>>, source |-> "None",
                                predecoded |-> None, removedFromIQ |-> None])]

---------------------------------------------------------------------------
(* CacheBlockGenerator with unroll = True: the next 64-byte cache block.   *)

AlignmentOffset == 0

\* the size of the blocks of the DSB and the stall of the sequencer after the DSB
DSBBlockSize == 32
DSB_MS_Stall == 2
branchCanBeLastInstrInCachedBlock == FALSE

\* main(), line 2261: a sequence that does not end in a branch is unrolled
unroll == ~instructions[Len(instructions)].instr.isBranchInstr

\* m.fe.gen is the position of the generator: the next instruction, its address,
\* the round; block holds the instances generated for the block so far
RECURSIVE NextCacheBlock(_, _)
NextCacheBlock(m, block) ==
    LET gen == m.fe.gen
        last == gen.pos = Len(instructions)
        gen2 == [pos |-> IF last THEN 1 ELSE gen.pos + 1,
                 nextAddr |-> gen.nextAddr + instructions[gen.pos].instr.len,
                 rnd |-> IF last THEN gen.rnd + 1 ELSE gen.rnd]
        Yield(m2, block2) ==
            IF gen.nextAddr \div 64 # gen2.nextAddr \div 64 THEN [m |-> m2, block |-> block2]
            ELSE NextCacheBlock(m2, block2)
    IN  Yield([NewInstance(m, gen.pos, gen.nextAddr, gen.rnd) EXCEPT !.fe.gen = gen2],
              Append(block, Len(m.insts) + 1))

---------------------------------------------------------------------------
(* The stack engine: FrontEnd.addStackSyncUop.                             *)

RSPLimit(off) == off > 192

\* a variant in which an explicit read of RSP needs no sync uop
ReadNeedsNoSync(off, ops) == FALSE

\* line 706: the offset is nonzero and an operand that is not an implicit stack
\* operand reads RSP
ReadNeedsSync(off, ops) ==
    off # 0 /\ \E k \in 1..Len(ops) : ops[k].reg = "RSP" /\ ~ops[k].imp

addStackSyncUop(m, u, clk) ==
    IF ~PropOf(m.uops[u]).first THEN m
    ELSE LET instr == InstrOf(m.uops[u])
             ops == instr.inRegs \o instr.memAddrRegs
             sync1 == ReadNeedsSync(m.fe.RSPOffset, ops)
             off1 == (IF sync1 THEN 0 ELSE m.fe.RSPOffset) + instr.implicitRSPChange
             sync2 == RSPLimit(off1)
             off2 == IF sync2 THEN 0 ELSE off1
             off3 == IF \E k \in 1..Len(instr.outRegs) : instr.outRegs[k].reg = "RSP" THEN 0 ELSE off2
             nu == Len(m.uops) + 1
             nf == Len(m.fused) + 1
             nl == Len(m.lams) + 1
             iid == m.uops[u].instrI
         IN  IF sync1 \/ sync2
             THEN [m EXCEPT !.fe.RSPOffset = off3,
                            !.uops = Append(@, Uop(m.uops[u].ip, iid, "sync", 1, nf)),
                            !.fused = Append(@, FusedUop(<<nu>>, nl)),
                            !.lams = Append(@, [LaminatedUop(<<nf>>) EXCEPT !.addedToIDQ = clk,
                                                                           !.uopSource = "SE"]),
                            !.IDQ = Append(@, nl),
                            !.insts[iid].stackSyncUops = Append(@, nl)]
             ELSE [m EXCEPT !.fe.RSPOffset = off3]

---------------------------------------------------------------------------
(* The simple front end (uopSource is None): FrontEnd.cycle, lines 524-531 *)

\* for uop in lamUop.getUnfusedUops(): IDQ.append(LaminatedUop([FusedUop([uop])]))
RECURSIVE SimpleAppendUops(_, _)
SimpleAppendUops(m, us) ==
    IF us = <<>> THEN m
    ELSE LET nf == Len(m.fused) + 1
             nl == Len(m.lams) + 1
         IN  SimpleAppendUops([m EXCEPT !.uops[Head(us)].fusedUop = nf,
                                        !.fused = Append(@, FusedUop(<<Head(us)>>, nl)),
                                        !.lams = Append(@, LaminatedUop(<<nf>>)),
                                        !.IDQ = Append(@, nl)],
                              Tail(us))

RECURSIVE SimpleAppendLams(_, _, _)
SimpleAppendLams(m, ls, clk) ==
    IF ls = <<>> THEN m
    ELSE LET AppendAll(us) ==
                 SimpleAppendLams(SimpleAppendUops(addStackSyncUop(m, us[1], clk), us), Tail(ls), clk)
         IN  AppendAll(UnfusedOfLam(m, Head(ls)))

RECURSIVE SimpleAppendBlock(_, _, _)
SimpleAppendBlock(m, block, clk) ==
    IF block = <<>> THEN m
    ELSE SimpleAppendBlock(SimpleAppendLams(m, m.insts[Head(block)].uops, clk), Tail(block), clk)

RECURSIVE SimpleFrontEnd(_, _)
SimpleFrontEnd(m, clk) ==
    IF Len(m.IDQ) >= IssueWidth THEN m
    ELSE LET Fill(nb) == SimpleFrontEnd(SimpleAppendBlock(nb.m, nb.block, clk), clk)
         IN  Fill(NextCacheBlock(m, <<>>))

---------------------------------------------------------------------------
(* Renamer.cycle.  m holds uops, fused, lams, insts, renOps, sbs, IDQ, ren. *)

RenamedOperand(op, u) == [op |-> op, uop |-> u]
StoreBufferEntry(key) == [abstractAddress |-> key, uops |-> <<>>,
                          addressReadyCycle |-> None, dataReadyCycle |-> None]

\* lines 266-270: the register-merge uops of the instance of uop first
RECURSIVE IssueMergeUops(_, _, _)
IssueMergeUops(m, first, k) ==
    IF k > Len(instructions[m.uops[first].ip].regMergeProps) THEN m
    ELSE LET nu == Len(m.uops) + 1
             nf == Len(m.fused) + 1
             nl == Len(m.lams) + 1
             iid == m.uops[first].instrI
         IN  IssueMergeUops([m EXCEPT !.uops = Append(@, Uop(m.uops[first].ip, iid, "merge", k, nf)),
                                      !.fused = Append(@, FusedUop(<<nu>>, nl)),
                                      !.lams = Append(@, LaminatedUop(<<nf>>)),
                                      !.insts[iid].regMergeUops = Append(@, nl)],
                            first, k + 1)

\* lines 255-279: the fused uops taken from the IDQ in this cycle
RECURSIVE DrainIDQ(_, _, _)
DrainIDQ(m, renamerUops, rbEmpty) ==
    IF m.IDQ = <<>> THEN [m |-> m, renamerUops |-> renamerUops]
    ELSE LET fusedUops == m.lams[Head(m.IDQ)].fused
             firstUnfusedUop == m.fused[fusedUops[1]].uops[1]
             prop == PropOf(m.uops[firstUnfusedUop])
             regMergeProps == instructions[m.uops[firstUnfusedUop].ip].regMergeProps
             nf == Len(m.fused)
         IN  IF prop.first /\ regMergeProps # <<>> /\ renamerUops # <<>>
             THEN [m |-> m, renamerUops |-> renamerUops]
             ELSE IF prop.first /\ regMergeProps # <<>> /\ m.ren.lastRegMergeIssued # firstUnfusedUop
             THEN [m |-> [IssueMergeUops(m, firstUnfusedUop, 1)
                            EXCEPT !.ren.lastRegMergeIssued = firstUnfusedUop],
                   renamerUops |-> [k \in 1..Len(regMergeProps) |-> nf + k]]
             ELSE IF prop.first /\ InstrOf(m.uops[firstUnfusedUop]).isSerializingInstr /\ ~rbEmpty
             THEN [m |-> m, renamerUops |-> renamerUops]
             ELSE IF Len(renamerUops) + Len(fusedUops) > IssueWidth
             THEN [m |-> m, renamerUops |-> renamerUops]
             ELSE DrainIDQ([m EXCEPT !.IDQ = Tail(@)], renamerUops \o fusedUops, rbEmpty)

\* a variant that forgets the eliminations of the previous cycles
nGPRMoveElimPossibleInCycle(r, nGPRMoveElim) == MoveEliminationGPRSlots - nGPRMoveElim

\* lines 293-295: the move-elimination slots that are left
nGPRMoveElimPossible(r, nGPRMoveElim) ==
    MoveEliminationGPRSlots - nGPRMoveElim
      - SumSeq([i \in 1..(MoveEliminationPipelineLength - 1) |->
                   Get(r.nGPRMoveElimInCycle, r.renamerActiveCycle - i, 0)])
      - Get(r.multiUseGPRDictUseInCycle, r.renamerActiveCycle - MoveEliminationPipelineLength, 0)

\* lines 303-305: the move-elimination slots for vector registers that are left
nSIMDMoveElimPossible(r, nSIMDMoveElim) ==
    MoveEliminationSIMDSlots - nSIMDMoveElim
      - SumSeq([i \in 1..(MoveEliminationPipelineLength - 1) |->
                   Get(r.nSIMDMoveElimInCycle, r.renamerActiveCycle - i, 0)])
      - Get(r.multiUseSIMDDictUseInCycle, r.renamerActiveCycle - MoveEliminationPipelineLength, 0)

\* lines 284-308: mark the moves that are eliminated; n counts the eliminated
\* moves of this cycle, n.gpr and n.simd
RECURSIVE MarkEliminated(_, _, _)
MarkEliminated(m, us, n) ==
    IF us = <<>> THEN [m |-> m, n |-> n]
    ELSE LET u == m.uops[Head(us)]
             eliminable == InstrOf(u).mayBeEliminated /\ u.kind = "own"
             canonicalInpReg == InstrOf(u).inRegs[1].reg
         IN  IF eliminable /\ IsGPR(canonicalInpReg) /\ nGPRMoveElimPossible(m.ren, n.gpr) > 0
             THEN MarkEliminated([m EXCEPT !.uops[Head(us)].eliminated = TRUE], Tail(us),
                                 [n EXCEPT !.gpr = @ + 1])
             ELSE IF eliminable /\ IsSIMD(canonicalInpReg)
                        /\ nSIMDMoveElimPossible(m.ren, n.simd) > 0
             THEN MarkEliminated([m EXCEPT !.uops[Head(us)].eliminated = TRUE], Tail(us),
                                 [n EXCEPT !.simd = @ + 1])
             ELSE MarkEliminated(m, Tail(us), n)

\* Renamer.getStoreBufferKey; <<>> stands for None
getStoreBufferKey(r, memAddr) ==
    IF ~memAddr.some THEN <<>>
    ELSE <<Get(r.abstractValueDict, memAddr.base, 0), Get(r.abstractValueDict, memAddr.index, 0),
           memAddr.scale, memAddr.disp>>

\* Renamer.computeAbstractValue with getAbstractValue: the renamer and the value
computeAbstractValue(r, instr) ==
    IF instr.isMov /\ instr.inRegs # <<>>
    THEN LET key == instr.inRegs[1].reg
             r2 == IF key \in DOMAIN r.abstractValueDict THEN r
                   ELSE [r EXCEPT !.abstractValueDict = Put(@, key, 0)]
         IN  [ren |-> r2, value |-> r2.abstractValueDict[key]]
    ELSE [ren |-> [r EXCEPT !.nextAbstractValue = @ + 1], value |-> r.nextAbstractValue]

\* lines 339-348
RenameStoreBuffer(m, u) ==
    LET prop == PropOf(m.uops[u])
        Load(m2) ==
            IF prop.load
            THEN [m2 EXCEPT !.uops[u].sb = Get(m2.ren.storeBufferEntryDict,
                                               getStoreBufferKey(m2.ren, prop.mem), None)]
            ELSE m2
        Store(m1) ==
            Load(IF prop.sta \/ prop.std
                 THEN [m1 EXCEPT !.uops[u].sb = m1.ren.curStoreBufferEntry,
                                 !.sbs[m1.ren.curStoreBufferEntry].uops = Append(@, u)]
                 ELSE m1)
    IN  Store(IF prop.sta
              THEN [m EXCEPT !.sbs = Append(@, StoreBufferEntry(getStoreBufferKey(m.ren, prop.mem))),
                             !.ren.curStoreBufferEntry = Len(m.sbs) + 1,
                             !.ren.storeBufferEntryDict =
                                 Put(@, getStoreBufferKey(m.ren, prop.mem), Len(m.sbs) + 1)]
              ELSE m)

\* lines 350-358
RECURSIVE RenameInputs(_, _, _)
RenameInputs(m, u, ins) ==
    IF ins = <<>> THEN m
    ELSE LET inpOp == Head(ins)
             new == Len(m.renOps) + 1
         IN  IF inpOp \in PseudoOps
             THEN RenameInputs([m EXCEPT !.uops[u].rin = Append(@, m.ren.curInstrPseudoOpDict[inpOp])],
                               u, Tail(ins))
             ELSE IF inpOp \in DOMAIN m.ren.renameDict
             THEN RenameInputs([m EXCEPT !.uops[u].rin = Append(@, m.ren.renameDict[inpOp])],
                               u, Tail(ins))
             ELSE RenameInputs([m EXCEPT !.renOps = Append(@, RenamedOperand(inpOp, None)),
                                         !.ren.renameDict = Put(@, inpOp, new),
                                         !.uops[u].rin = Append(@, new)],
                               u, Tail(ins))

\* lines 359-367
RECURSIVE RenameOutputs(_, _, _)
RenameOutputs(m, u, outs) ==
    IF outs = <<>> THEN m
    ELSE LET outOp == Head(outs).op
             new == Len(m.renOps) + 1
             Bind(m1, av) ==
                 IF outOp \in PseudoOps
                 THEN [m1 EXCEPT !.ren.curInstrPseudoOpDict = Put(@, outOp, new)]
                 ELSE [m1 EXCEPT !.ren = [av.ren EXCEPT
                                            !.curInstrRndRenameDict = Put(@, outOp, new),
                                            !.curInstrRndAbstractValueDict = Put(@, outOp, av.value)]]
         IN  RenameOutputs(Bind([m EXCEPT !.renOps = Append(@, RenamedOperand(outOp, u)),
                                          !.uops[u].rout = Append(@, new)],
                                computeAbstractValue(m.ren, InstrOf(m.uops[u]))),
                           u, Tail(outs))

\* lines 370-371: an instruction without uops, e.g. a zero idiom
RECURSIVE RenameZeroUopOutputs(_, _)
RenameZeroUopOutputs(m, outRegs) ==
    IF outRegs = <<>> THEN m
    ELSE RenameZeroUopOutputs([m EXCEPT !.renOps = Append(@, RenamedOperand("", None)),
                                        !.ren.curInstrRndRenameDict = Put(@, Head(outRegs).reg, Len(m.renOps) + 1)],
                              Tail(outRegs))

\* lines 322-334: an eliminated move aliases its output to the input's operand
RenameEliminated(m, u) ==
    LET canonicalInpReg == InstrOf(m.uops[u]).inRegs[1].reg
        canonicalOutReg == InstrOf(m.uops[u]).outRegs[1].reg
        has == canonicalInpReg \in DOMAIN m.ren.renameDict
        renamedReg == IF has THEN m.ren.renameDict[canonicalInpReg] ELSE Len(m.renOps) + 1
    IN  [m EXCEPT !.renOps = IF has THEN @ ELSE Append(@, RenamedOperand("", None)),
                  !.ren.renameDict = Put(@, canonicalInpReg, renamedReg),
                  !.ren.curInstrRndRenameDict = Put(@, canonicalOutReg, renamedReg),
                  !.ren.multiUseGPRDict =
                      IF IsGPR(canonicalInpReg)
                      THEN Put(@, renamedReg, Get(@, renamedReg, {}) \cup {canonicalInpReg, canonicalOutReg})
                      ELSE @,
                  !.ren.multiUseSIMDDict =
                      IF IsGPR(canonicalInpReg) THEN @
                      ELSE Put(@, renamedReg, Get(@, renamedReg, {}) \cup {canonicalInpReg, canonicalOutReg})]

\* lines 373-388: the instruction's outputs become visible
CommitInstr(m, u) ==
    LET r == m.ren
        cur == r.curInstrRndRenameDict
        overwritten(renOp) == {key \in DOMAIN cur :
                                 /\ key \in DOMAIN r.renameDict
                                 /\ r.renameDict[key] = renOp
                                 /\ (~m.uops[u].eliminated \/ renOp # cur[key])}
    IN  [m EXCEPT !.ren = [r EXCEPT
            !.multiUseGPRDict = [renOp \in DOMAIN @ |->
                                    @[renOp] \ {key \in overwritten(renOp) : IsGPR(key)}],
            !.multiUseSIMDDict = [renOp \in DOMAIN @ |->
                                     @[renOp] \ {key \in overwritten(renOp) : IsSIMD(key)}],
            !.renameDict = [key \in DOMAIN @ \cup DOMAIN cur |->
                               IF key \in DOMAIN cur THEN cur[key] ELSE @[key]],
            !.abstractValueDict = [key \in DOMAIN @ \cup DOMAIN r.curInstrRndAbstractValueDict |->
                               IF key \in DOMAIN r.curInstrRndAbstractValueDict
                               THEN r.curInstrRndAbstractValueDict[key] ELSE @[key]],
            !.curInstrRndRenameDict = EmptyDict,
            !.curInstrRndAbstractValueDict = EmptyDict,
            !.curInstrPseudoOpDict = EmptyDict]]

\* a variant in which a uop that writes registers makes them visible at once
CommitsAfterRegisterWrite(m, u) ==
    \/ PropOf(m.uops[u]).last \/ PropOf(m.uops[u]).merge \/ m.uops[u].kind = "sync"
    \/ \E j \in 1..Len(PropOf(m.uops[u]).outs) : PropOf(m.uops[u]).outs[j].op \notin PseudoOps

\* line 373: the uops after which the outputs become visible
CommitsAfter(m, u) ==
    PropOf(m.uops[u]).last \/ PropOf(m.uops[u]).merge \/ m.uops[u].kind = "sync"

\* lines 319-388, for one uop
RenameUop(m, u) ==
    LET prop == PropOf(m.uops[u])
        Commit(m1) == IF CommitsAfter(m, u) THEN CommitInstr(m1, u) ELSE m1
    IN  Commit(IF m.uops[u].eliminated THEN RenameEliminated(m, u)
               ELSE IF InstrOf(m.uops[u]).uops # 0 \/ m.uops[u].kind = "sync"
               THEN RenameOutputs(RenameInputs(RenameStoreBuffer(m, u), u, prop.ins), u, prop.outs)
               ELSE RenameZeroUopOutputs(m, InstrOf(m.uops[u]).outRegs))

RECURSIVE RenameUops(_, _)
RenameUops(m, us) == IF us = <<>> THEN m ELSE RenameUops(RenameUop(m, Head(us)), Tail(us))

\* lines 310-317
DropSingleAliases(m, n) ==
    [m EXCEPT !.ren.multiUseGPRDict =
                  IF n.gpr = 0 /\ ~MoveEliminationGPRAllAliasesMustBeOverwritten
                  THEN Del(@, {k \in DOMAIN @ : Cardinality(@[k]) <= 1}) ELSE @,
              !.ren.multiUseSIMDDict =
                  IF n.simd = 0 THEN Del(@, {k \in DOMAIN @ : Cardinality(@[k]) <= 1}) ELSE @]

\* lines 390-403
RenamerBookkeeping(m, n) ==
    LET Count(multi, multiSIMD) ==
            [m EXCEPT !.ren.nGPRMoveElimInCycle = Put(@, m.ren.renamerActiveCycle, n.gpr),
                      !.ren.nSIMDMoveElimInCycle = Put(@, m.ren.renamerActiveCycle, n.simd),
                      !.ren.multiUseGPRDict = multi,
                      !.ren.multiUseGPRDictUseInCycle =
                          IF multi # EmptyDict
                          THEN Put(@, m.ren.renamerActiveCycle, Cardinality(DOMAIN multi)) ELSE @,
                      !.ren.multiUseSIMDDict = multiSIMD,
                      !.ren.multiUseSIMDDictUseInCycle =
                          IF multiSIMD # EmptyDict
                          THEN Put(@, m.ren.renamerActiveCycle, Cardinality(DOMAIN multiSIMD)) ELSE @]
    IN  Count(Del(m.ren.multiUseGPRDict, {k \in DOMAIN m.ren.multiUseGPRDict :
                                             m.ren.multiUseGPRDict[k] = {}}),
              Del(m.ren.multiUseSIMDDict, {k \in DOMAIN m.ren.multiUseSIMDDict :
                                              m.ren.multiUseSIMDDict[k] = {}}))

\* Renamer.cycle: the new objects and the fused uops that are issued
RenamerCycle(m, rbEmpty) ==
    LET Rename(e, renamerUops, us) ==
            [m |-> RenamerBookkeeping(RenameUops(DropSingleAliases(e.m, e.n), us), e.n),
             renamerUops |-> renamerUops]
        Eliminate(d, us) == Rename(MarkEliminated(d.m, us, [gpr |-> 0, simd |-> 0]), d.renamerUops, us)
        Drained(d) == Eliminate(d, UnfusedOfFused(d.m, d.renamerUops))
    IN  Drained(DrainIDQ([m EXCEPT !.ren.renamerActiveCycle = @ + 1], <<>>, rbEmpty))

---------------------------------------------------------------------------
(* ReorderBuffer.  m holds uops, fused, RB, retireQueue.                    *)

\* a variant in which the reorder buffer always counts as empty
RBisEmptyAlways(rb) == TRUE

\* ReorderBuffer.isEmpty
RBisEmpty(rb) == rb = <<>>

RBisFull(rb) == Len(rb) + IssueWidth > uArchConfig.RBWidth

\* a variant in which a uop may retire in the cycle in which it finishes
MayRetireSameCycle(m, f, clk) ==
    \A k \in 1..Len(m.fused[f].uops) :
        LET u == m.uops[m.fused[f].uops[k]]
        IN  u.executed # None /\ u.executed <= clk

\* the guard of retireUops: every unfused uop has finished before this cycle
MayRetire(m, f, clk) ==
    \A k \in 1..Len(m.fused[f].uops) :
        LET u == m.uops[m.fused[f].uops[k]]
        IN  u.executed # None /\ u.executed < clk

RECURSIVE retireUops(_, _, _)
retireUops(m, clk, nRetiredInSameCycle) ==
    IF nRetiredInSameCycle >= RetireWidth \/ m.RB = <<>> THEN m
    ELSE IF MayRetire(m, Head(m.RB), clk)
         THEN retireUops([m EXCEPT !.RB = Tail(@),
                                   !.retireQueue = Append(@, Head(m.RB)),
                                   !.fused[Head(m.RB)].retired = clk,
                                   !.fused[Head(m.RB)].retireIdx = nRetiredInSameCycle],
                         clk, nRetiredInSameCycle + 1)
         ELSE m

RECURSIVE MarkExecuted(_, _, _)
MarkExecuted(us, ids, clk) ==
    IF ids = <<>> THEN us
    ELSE MarkExecuted(IF PropOf(us[Head(ids)]).ports = <<>> \/ us[Head(ids)].eliminated
                      THEN [us EXCEPT ![Head(ids)].executed = clk] ELSE us,
                      Tail(ids), clk)

\* a variant in which new uops enter the reorder buffer at its head
addUopsAtHead(m, newUops, clk) ==
    [m EXCEPT !.RB = newUops \o @,
              !.uops = MarkExecuted(@, UnfusedOfFused(m, newUops), clk)]

addUops(m, newUops, clk) ==
    [m EXCEPT !.RB = @ \o newUops,
              !.uops = MarkExecuted(@, UnfusedOfFused(m, newUops), clk)]

RBcycle(m, newUops, clk) == addUops(retireUops(m, clk, 0), newUops, clk)

---------------------------------------------------------------------------
(* Scheduler.  m holds uops, fused, renOps, sbs, sched.                     *)

\* uop.prop.latencies.get(op, 1)
\* a variant in which every result takes one cycle more
LatencyOneMore(prop, op) ==
    LET Pick(hit) == IF hit = {} THEN 2 ELSE prop.outs[SetMin(hit)].lat + 1
    IN  Pick({k \in 1..Len(prop.outs) : prop.outs[k].op = op})

Latency(prop, op) ==
    LET Pick(hit) == IF hit = {} THEN 1 ELSE prop.outs[SetMin(hit)].lat
    IN  Pick({k \in 1..Len(prop.outs) : prop.outs[k].op = op})

\* the largest element of a list of cycles, at least floor
SeqMax(s, floor) ==
    IF s = <<>> THEN floor ELSE Max(floor, CHOOSE x \in Range(s) : \A y \in Range(s) : x >= y)

\* the latency of store-to-load forwarding (line 212)
StoreForwardingLatency == 4

\* a variant in which a load does not wait for the store it reads from
getReadyCycleNoForwarding(m, ro) ==
    IF m.renOps[ro].uop = None THEN -1
    ELSE IF m.uops[m.renOps[ro].uop].dispatched = None THEN None
    ELSE m.uops[m.renOps[ro].uop].dispatched
            + Latency(PropOf(m.uops[m.renOps[ro].uop]), m.renOps[ro].op)

\* RenamedOperand.getReadyCycle; the cached value never differs from this one
getReadyCycle(m, ro) ==
    IF m.renOps[ro].uop = None THEN -1
    ELSE LET u == m.uops[m.renOps[ro].uop]
             prop == PropOf(u)
             Ready(lat) ==
                 IF u.dispatched = None THEN None
                 ELSE IF prop.load /\ u.sb # None
                 THEN IF m.sbs[u.sb].addressReadyCycle = None \/ m.sbs[u.sb].dataReadyCycle = None
                      THEN None
                      ELSE Max(u.dispatched + lat,
                               Max(m.sbs[u.sb].addressReadyCycle, m.sbs[u.sb].dataReadyCycle)
                                  + StoreForwardingLatency)
                 ELSE u.dispatched + lat
         IN  Ready(Latency(prop, m.renOps[ro].op))

SchedIsFull(sc) == Cardinality(sc.uops) + IssueWidth > uArchConfig.RSWidth

\* min(..., key=lambda x: (x[1], -int(x[0]))): least usage, then the highest port
MinPort(usage, ports) ==
    CHOOSE p \in ports : \A q \in ports :
        usage[p] < usage[q] \/ (usage[p] = usage[q] /\ p >= q)

\* sorted(applicablePortUsages, key=lambda x: (x[1], -int(x[0])))
RECURSIVE SortedPorts(_, _)
SortedPorts(usage, ports) ==
    IF ports = {} THEN <<>>
    ELSE <<MinPort(usage, ports)>> \o SortedPorts(usage, ports \ {MinPort(usage, ports)})

\* lines 1167-1192: the port of a uop with several possible ports on a machine with 10 ports
ChoosePort10(sc, possiblePorts, issueSlot) ==
    LET usage == sc.portUsageAtStartOfPrevCycle
        sorted == SortedPorts(usage, Range(possiblePorts))
        sortedPorts == SelectSeq(sorted, LAMBDA p : usage[p] < usage[sorted[1]] + 5)
        nPC == Get(sc.portCombinationsInCurCycle, Range(possiblePorts), 0)
    IN  IF possiblePorts = <<2, 3>> THEN sc.nextP23Port
        ELSE IF possiblePorts = <<4, 9>> THEN sc.nextP49Port
        ELSE IF possiblePorts = <<7, 8>> THEN sc.nextP78Port
        ELSE IF issueSlot = 4 THEN sortedPorts[1]
        ELSE IF issueSlot = 3 /\ nPC = 0 /\ Len(sortedPorts) > 1 THEN sortedPorts[2]
        ELSE sortedPorts[(nPC % Len(sortedPorts)) + 1]

\* a variant without the alternation between ports 2 and 3
ChoosePort8ByUsage(sc, possiblePorts, issueSlot) ==
    IF issueSlot % 2 = 0 THEN MinPort(sc.portUsageAtStartOfCycle, Range(possiblePorts))
    ELSE MinPort(sc.portUsageAtStartOfCycle,
                 Range(possiblePorts) \ {MinPort(sc.portUsageAtStartOfCycle, Range(possiblePorts))})

\* lines 1193-1208: the port of a uop with several possible ports on a machine with 8 ports
ChoosePort8(sc, possiblePorts, issueSlot) ==
    LET usage == sc.portUsageAtStartOfCycle
        minPort == MinPort(usage, Range(possiblePorts))
        min2Port == MinPort(usage, Range(possiblePorts) \ {minPort})
    IN  IF possiblePorts = <<2, 3>> THEN sc.nextP23Port
        ELSE IF issueSlot % 2 = 0 THEN minPort
        ELSE IF usage[min2Port] >= usage[minPort] + 3 THEN minPort
        ELSE min2Port

\* min(..., key=lambda x: (x[1], int(x[0]))) and max with the same key: least
\* usage, then the lowest port; most usage, then the highest port
MinPortLow(usage, ports) ==
    CHOOSE p \in ports : \A q \in ports :
        usage[p] < usage[q] \/ (usage[p] = usage[q] /\ p <= q)
MaxPortHigh(usage, ports) ==
    CHOOSE p \in ports : \A q \in ports :
        usage[p] > usage[q] \/ (usage[p] = usage[q] /\ p >= q)

\* lines 1209-1230: the port of a uop with several possible ports on the other machines
ChoosePort6(sc, possiblePorts, issueSlot) ==
    LET usage == sc.portUsageAtStartOfCycle
        ports == Range(possiblePorts) \cap DOMAIN usage
        minPort == MinPortLow(usage, ports)
    IN  IF possiblePorts = <<2, 3>> THEN sc.nextP23Port
        ELSE IF \E p1 \in ports : \E p2 \in ports : Abs(usage[p1] - usage[p2]) >= 3 THEN minPort
        ELSE IF possiblePorts = <<0, 1, 5>>
        THEN (CASE minPort = 0 -> <<0, 5, 1, 0>>
                [] minPort = 1 -> <<1, 5, 0, 1>>
                [] minPort = 5 -> <<5, 1, 0, 5>>)[issueSlot + 1]
        ELSE IF issueSlot % 2 = 0 THEN minPort
        ELSE MaxPortHigh(usage, ports)

\* a variant that gives every uop the first port of the machine
ChooseFirstPort(sc, possiblePorts, issueSlot) == uArchConfig.allPorts[1]

\* lines 1167, 1193 and 1209: the number of ports selects the heuristic
ChoosePort(sc, possiblePorts, issueSlot) ==
    IF Len(uArchConfig.allPorts) = 10 THEN ChoosePort10(sc, possiblePorts, issueSlot)
    ELSE IF Len(uArchConfig.allPorts) = 8 THEN ChoosePort8(sc, possiblePorts, issueSlot)
    ELSE ChoosePort6(sc, possiblePorts, issueSlot)

checkDependingUopsExecuted(m, u) ==
    LET rin == m.uops[u].rin
        Add(blocking) ==
            IF blocking # {}
            THEN [m EXCEPT !.sched.dependentUops =
                      Put(@, m.renOps[rin[SetMin(blocking)]].uop,
                          Append(Get(@, m.renOps[rin[SetMin(blocking)]].uop, <<>>), u))]
            ELSE [m EXCEPT !.sched.nonReadyUops = Append(@, u)]
    IN  Add({k \in 1..Len(rin) :
                /\ getReadyCycle(m, rin[k]) = None
                /\ m.renOps[rin[k]].uop # None
                /\ m.uops[m.renOps[rin[k]].uop].executed = None})

\* a variant in which only uops without ports stay out of the scheduler
SkipsSchedulerWithoutPortsOnly(rec) == PropOf(rec).ports = <<>>

\* lines 1161-1162: uops without ports and eliminated uops are not scheduled
SkipsScheduler(rec) == PropOf(rec).ports = <<>> \/ rec.eliminated

\* lines 1160-1253 for one unfused uop
AddNewUop(m, u, issueSlot) ==
    LET prop == PropOf(m.uops[u])
        instr == InstrOf(m.uops[u])
        ten == Len(prop.ports) # 1 /\ Len(uArchConfig.allPorts) = 10
        Fences(m2) ==
            [m2 EXCEPT !.sched.pendingStoreFenceUops =
                           IF prop.first /\ instr.isStoreSerializing THEN Append(@, u) ELSE @,
                       !.sched.pendingLoadFenceUops =
                           IF prop.first /\ instr.isLoadSerializing THEN Append(@, u) ELSE @]
        Assign(port) ==
            Fences(checkDependingUopsExecuted(
                      [m EXCEPT !.uops[u].actualPort = port,
                                !.sched.nextP23Port = IF Len(prop.ports) # 1 /\ prop.ports = <<2, 3>>
                                                      THEN (IF @ = 2 THEN 3 ELSE 2) ELSE @,
                                !.sched.nextP49Port = IF ten /\ prop.ports = <<4, 9>>
                                                      THEN (IF @ = 4 THEN 9 ELSE 4) ELSE @,
                                !.sched.nextP78Port = IF ten /\ prop.ports = <<7, 8>>
                                                      THEN (IF @ = 7 THEN 8 ELSE 7) ELSE @,
                                !.sched.portCombinationsInCurCycle =
                                    IF ten THEN Put(@, Range(prop.ports), Get(@, Range(prop.ports), 0) + 1)
                                    ELSE @,
                                !.sched.portUsage[port] = @ + 1,
                                !.sched.uops = @ \cup {u}],
                      u))
    IN  IF SkipsScheduler(m.uops[u]) THEN m
        ELSE Assign(IF Len(prop.ports) = 1 THEN prop.ports[1]
                    ELSE ChoosePort(m.sched, prop.ports, issueSlot))

RECURSIVE AddNewUopsOfSlot(_, _, _)
AddNewUopsOfSlot(m, us, issueSlot) ==
    IF us = <<>> THEN m
    ELSE AddNewUopsOfSlot(AddNewUop(m, Head(us), issueSlot), Tail(us), issueSlot)

RECURSIVE AddNewSlots(_, _, _)
AddNewSlots(m, newUops, issueSlot) ==
    IF issueSlot >= Len(newUops) THEN m
    ELSE AddNewSlots(AddNewUopsOfSlot(m, m.fused[newUops[issueSlot + 1]].uops, issueSlot),
                     newUops, issueSlot + 1)

\* portUsageAtStartOfCycle.get(clock-1, ...) is the entry of the previous cycle,
\* which exists from cycle 1 on; portCombinationsInCurCycle is a local variable
addNewUops(m, newUops, clk) ==
    [AddNewSlots([m EXCEPT !.sched.portUsageAtStartOfCycle = m.sched.portUsage,
                           !.sched.portUsageAtStartOfPrevCycle =
                               IF clk = 0 THEN m.sched.portUsage ELSE m.sched.portUsageAtStartOfCycle],
                 newUops, 0)
        EXCEPT !.sched.portCombinationsInCurCycle = EmptyDict]

\* lines 997-1004: the divider counts down and the uops that become ready now
\* are pushed on the heaps
RECURSIVE PushReadyUops(_, _)
PushReadyUops(m, us) ==
    IF us = <<>> THEN m
    ELSE LET u == Head(us)
         IN  PushReadyUops(IF PropOf(m.uops[u]).div # 0
                           THEN [m EXCEPT !.sched.readyDivUops = @ \cup {u}]
                           ELSE [m EXCEPT !.sched.readyQueue[m.uops[u].actualPort] = @ \cup {u}],
                           Tail(us))

StartOfCycle(m, clk) ==
    IF clk \in DOMAIN m.sched.uopsReadyInCycle
    THEN [PushReadyUops(m, m.sched.uopsReadyInCycle[clk])
             EXCEPT !.sched.uopsReadyInCycle = Del(@, {clk}),
                    !.sched.divBusy = Max(0, @ - 1)]
    ELSE [m EXCEPT !.sched.divBusy = Max(0, @ - 1)]

\* a variant that does not look at the busy counter of the divider
UseDivQueueWhileBusy(sc, port) ==
    /\ port = 0
    /\ sc.readyDivUops # {}
    /\ (sc.readyQueue[0] = {} \/ SetMin(sc.readyDivUops) < SetMin(sc.readyQueue[0]))

\* line 1031: the divider heap takes the place of the queue of port 0
UseDivQueue(sc, port) ==
    /\ port = 0
    /\ sc.divBusy = 0
    /\ sc.readyDivUops # {}
    /\ (sc.readyQueue[0] = {} \/ SetMin(sc.readyDivUops) < SetMin(sc.readyQueue[0]))

\* lines 1029-1053: one port after the other; uopsDispatched is returned in m.dispatched
RECURSIVE DispatchPorts(_, _, _)
DispatchPorts(m, ports, clk) ==
    IF ports = <<>> THEN m
    ELSE LET port == Head(ports)
             fromDiv == UseDivQueue(m.sched, port)
             Take(u) ==
                 [m EXCEPT !.sched.readyDivUops = IF fromDiv THEN @ \ {u} ELSE @,
                           !.sched.readyQueue[port] = IF fromDiv THEN @ ELSE @ \ {u},
                           !.uops[u].dispatched = clk,
                           !.sched.divBusy = @ + PropOf(m.uops[u]).div,
                           !.sched.uops = @ \ {u},
                           !.sched.pendingUops = @ \cup {u},
                           !.dispatched = Append(@, u)]
             Pop(queue) ==
                 IF queue = {} THEN DispatchPorts(m, Tail(ports), clk)
                 ELSE DispatchPorts(Take(SetMin(queue)), Tail(ports), clk)
         IN  Pop(IF fromDiv THEN m.sched.readyDivUops ELSE m.sched.readyQueue[port])

\* a variant that never decrements the counters
ReleaseNoPorts(portUsage, us) == portUsage

RECURSIVE ReleasePorts(_, _)
ReleasePorts(portUsage, us) ==
    IF us = <<>> THEN portUsage
    ELSE ReleasePorts([portUsage EXCEPT ![Head(us)] = @ - 1], Tail(us))

\* a variant that lets ports 4 and 9 dispatch whatever the addresses are
ApplicablePortsAll(m) == uArchConfig.allPorts

\* lines 1014-1026: paired stores; of two stores to different cache lines at the
\* heads of the queues of ports 4 and 9, only the older one is dispatched
ApplicablePorts(m) ==
    LET allPorts == uArchConfig.allPorts
        uop4 == SetMin(m.sched.readyQueue[4])
        uop9 == SetMin(m.sched.readyQueue[9])
        addr4 == m.sbs[m.uops[uop4].sb].abstractAddress
        addr9 == m.sbs[m.uops[uop9].sb].abstractAddress
    IN  IF /\ 4 \in Range(allPorts) /\ 9 \in Range(allPorts)
           /\ m.sched.readyQueue[4] # {} /\ m.sched.readyQueue[9] # {}
        THEN IF /\ addr4 # <<>> /\ addr9 # <<>>
                /\ \/ addr4[1] # addr9[1]
                   \/ addr4[2] # addr9[2]
                   \/ addr4[3] # addr9[3]
                   \/ Abs(addr4[4] - addr9[4]) >= 64
             THEN IF uop4 <= uop9 THEN SelectSeq(allPorts, LAMBDA p : p # 9)
                  ELSE SelectSeq(allPorts, LAMBDA p : p # 4)
             ELSE allPorts
        ELSE allPorts

dispatchUops(m, clk) ==
    LET prev == m.sched.uopsDispatchedInPrevCycle
        Release(d) ==
            [m EXCEPT !.uops = d.uops,
                      !.sched = [d.sched EXCEPT
                          !.portUsage = ReleasePorts(@, [k \in 1..Len(prev) |-> m.uops[prev[k]].actualPort]),
                          !.uopsDispatchedInPrevCycle = d.dispatched]]
    IN  Release(DispatchPorts([uops |-> m.uops, sched |-> m.sched, dispatched |-> <<>>],
                              ApplicablePorts(m), clk))

RECURSIVE CheckDependents(_, _)
CheckDependents(m, us) ==
    IF us = <<>> THEN m ELSE CheckDependents(checkDependingUopsExecuted(m, Head(us)), Tail(us))

\* a variant in which a uop counts as finished before it is dispatched
FinishTimeBeforeDispatch(rec, ready) == rec.dispatched - 1

\* lines 1065-1086: the cycle in which a dispatched uop has finished; ready holds
\* the ready cycles of its outputs
FinishTime(rec, ready) ==
    LET prop == PropOf(rec)
        TP == InstrOf(rec).TP
        t0 == IF prop.first /\ TP # None THEN Max(rec.dispatched + 2, rec.dispatched + TP)
              ELSE rec.dispatched + 2
        t1 == IF prop.sta THEN Max(t0, rec.dispatched + 5)
              ELSE IF prop.std THEN Max(t0, rec.dispatched + 1)
              ELSE t0
    IN  SeqMax(ready, t1)

\* the body of the loop of processPendingUops for one uop
ProcessPendingUop(m, u) ==
    LET rec == m.uops[u]
        prop == PropOf(rec)
        Finish(ready) ==
            IF \E k \in 1..Len(ready) : ready[k] = None THEN m
            ELSE [CheckDependents(
                     [m EXCEPT !.sbs = IF prop.sta
                                       THEN [@ EXCEPT ![rec.sb].addressReadyCycle = rec.dispatched + 5]
                                       ELSE IF prop.std
                                       THEN [@ EXCEPT ![rec.sb].dataReadyCycle = rec.dispatched + 1]
                                       ELSE @,
                               !.sched.dependentUops = Del(@, {u})],
                     Get(m.sched.dependentUops, u, <<>>))
                    EXCEPT !.sched.pendingUops = @ \ {u},
                           !.uops[u].executed = FinishTime(rec, ready)]
    IN  Finish([k \in 1..Len(rec.rout) |-> getReadyCycle(m, rec.rout[k])])

\* processPendingUops; order is the order in which the set pendingUops is traversed
RECURSIVE processPendingUops(_, _)
processPendingUops(m, order) ==
    IF order = <<>> THEN m ELSE processPendingUops(ProcessPendingUop(m, Head(order)), Tail(order))

\* a variant without the additional cycle at the dispatch-delay boundary
DispatchCycleWithoutBump(opReadyCycle, issued, clk) ==
    Max(clk + 1, Max(opReadyCycle, issued + IssueDispatchDelay))

\* a variant that does not wait for the operands
DispatchCycleIgnoringOperands(opReadyCycle, issued, clk) ==
    Max(clk + 1, issued + IssueDispatchDelay)

\* lines 1281-1287: the cycle in which a uop whose operands are ready in cycle
\* opReadyCycle may be dispatched
DispatchCycle(opReadyCycle, issued, clk) ==
    Max(clk + 1,
        IF opReadyCycle < issued + IssueDispatchDelay THEN issued + IssueDispatchDelay
        ELSE IF opReadyCycle = issued + IssueDispatchDelay
                \/ opReadyCycle = issued + IssueDispatchDelay + 1
        THEN opReadyCycle + 1
        ELSE opReadyCycle)

getReadyForDispatchCycle(m, u, clk) ==
    LET Cycle(ready) ==
            IF \E k \in 1..Len(ready) : ready[k] = None THEN None
            ELSE DispatchCycle(SeqMax(ready, -1), m.fused[m.uops[u].fusedUop].issued, clk)
    IN  Cycle([k \in 1..Len(m.uops[u].rin) |-> getReadyCycle(m, m.uops[u].rin[k])])

\* Scheduler.checkUopReady: the new state and the returned value
checkUopReady(m, u, clk) ==
    LET rec == m.uops[u]
        prop == PropOf(rec)
        instr == InstrOf(rec)
        sc == m.sched
        late(us) == \E k \in 1..Len(us) : m.uops[us[k]].executed = None \/ m.uops[us[k]].executed > clk
        fenced ==
            IF instr.isLoadSerializing
            THEN prop.first /\ (sc.pendingLoadFenceUops[1] # u \/ late(sc.loadUopsSinceLastLoadFence))
            ELSE IF instr.isStoreSerializing
            THEN prop.first /\ (sc.pendingStoreFenceUops[1] # u \/ late(sc.storeUopsSinceLastStoreFence))
            ELSE \/ prop.load /\ sc.pendingLoadFenceUops # <<>> /\ sc.pendingLoadFenceUops[1] < u
                 \/ (prop.std \/ prop.sta) /\ sc.pendingStoreFenceUops # <<>>
                       /\ sc.pendingStoreFenceUops[1] < u
        blocked == prop.first /\ Get(sc.blockedResources, instr.str, 0) > 0
        Stamp(readyForDispatchCycle) ==
            IF readyForDispatchCycle = None THEN [m |-> m, ok |-> FALSE]
            ELSE [m |-> [m EXCEPT
                      !.uops[u].readyForDispatch = readyForDispatchCycle,
                      !.sched.uopsReadyInCycle =
                          Put(@, readyForDispatchCycle, Append(Get(@, readyForDispatchCycle, <<>>), u)),
                      !.sched.blockedResources =
                          IF prop.first /\ instr.TP # None THEN Put(@, instr.str, instr.TP) ELSE @,
                      !.sched.loadUopsSinceLastLoadFence = IF prop.load THEN Append(@, u) ELSE @,
                      !.sched.storeUopsSinceLastStoreFence =
                          IF prop.std \/ prop.sta THEN Append(@, u) ELSE @],
                  ok |-> TRUE]
    IN  IF rec.readyForDispatch # None THEN [m |-> m, ok |-> TRUE]
        ELSE IF fenced \/ blocked THEN [m |-> m, ok |-> FALSE]
        ELSE Stamp(getReadyForDispatchCycle(m, u, clk))

RECURSIVE CheckNonReadyUops(_, _, _, _)
CheckNonReadyUops(m, us, kept, clk) ==
    IF us = <<>> THEN [m EXCEPT !.sched.nonReadyUops = kept]
    ELSE LET Checked(c) ==
                 CheckNonReadyUops(c.m, Tail(us), IF c.ok THEN kept ELSE Append(kept, Head(us)), clk)
         IN  Checked(checkUopReady(m, Head(us), clk))

processNonReadyUops(m, clk) == CheckNonReadyUops(m, m.sched.nonReadyUops, <<>>, clk)

\* a variant that removes a fence from its queue as soon as it has been dispatched
processPendingFencesWhenDispatched(m, clk) ==
    LET done(q) == q # <<>> /\ m.uops[q[1]].dispatched # None
        ld == done(m.sched.pendingLoadFenceUops)
        st == done(m.sched.pendingStoreFenceUops)
    IN  [m EXCEPT !.sched.pendingLoadFenceUops = IF ld THEN Tail(@) ELSE @,
                  !.sched.loadUopsSinceLastLoadFence = IF ld THEN <<>> ELSE @,
                  !.sched.pendingStoreFenceUops = IF st THEN Tail(@) ELSE @,
                  !.sched.storeUopsSinceLastStoreFence = IF st THEN <<>> ELSE @]

processPendingFences(m, clk) ==
    LET done(q) == q # <<>> /\ m.uops[q[1]].executed # None /\ m.uops[q[1]].executed <= clk
        ld == done(m.sched.pendingLoadFenceUops)
        st == done(m.sched.pendingStoreFenceUops)
    IN  [m EXCEPT !.sched.pendingLoadFenceUops = IF ld THEN Tail(@) ELSE @,
                  !.sched.loadUopsSinceLastLoadFence = IF ld THEN <<>> ELSE @,
                  !.sched.pendingStoreFenceUops = IF st THEN Tail(@) ELSE @,
                  !.sched.storeUopsSinceLastStoreFence = IF st THEN <<>> ELSE @]

updateBlockedResources(m) ==
    [m EXCEPT !.sched.blockedResources = [r \in DOMAIN @ |-> Max(0, @[r] - 1)]]

\* Scheduler.cycle up to dispatchUops, and from processPendingUops on
SchedulerCycleDispatch(m, newUops, clk) ==
    dispatchUops(addNewUops(StartOfCycle(m, clk), newUops, clk), clk)

SchedulerCycleProcess(m, order, clk) ==
    updateBlockedResources(processPendingFences(
        processNonReadyUops(processPendingUops(m, order), clk), clk))

---------------------------------------------------------------------------
(* The cache blocks of one round in loop mode and the blocks of the DSB.    *)

\* CacheBlocksForNextRoundGenerator: the cache blocks of the next round; the
\* last instruction ends the round and the addresses start again
RECURSIVE RoundBlocks(_, _, _)
RoundBlocks(m, block, blocks) ==
    LET Step(m2, gen, nextAddr, block2) ==
            IF gen.pos = Len(instructions)
            THEN [m |-> [m2 EXCEPT !.fe.gen = [pos |-> 1, nextAddr |-> AlignmentOffset,
                                               rnd |-> gen.rnd + 1]],
                  blocks |-> Append(blocks, block2)]
            ELSE IF gen.nextAddr \div 64 # nextAddr \div 64
            THEN RoundBlocks([m2 EXCEPT !.fe.gen = [gen EXCEPT !.pos = @ + 1, !.nextAddr = nextAddr]],
                             <<>>, Append(blocks, block2))
            ELSE RoundBlocks([m2 EXCEPT !.fe.gen = [gen EXCEPT !.pos = @ + 1, !.nextAddr = nextAddr]],
                             block2, blocks)
        Gen(gen) == Step(NewInstance(m, gen.pos, gen.nextAddr, gen.rnd), gen,
                         gen.nextAddr + instructions[gen.pos].instr.len,
                         Append(block, Len(m.insts) + 1))
    IN  Gen(m.fe.gen)

NextRoundBlocks(m) == RoundBlocks(m, <<>>, <<>>)

split32ByteBlockTo16ByteBlocks(m, B32Block) ==
    [b \in 1..2 |-> SelectSeq(B32Block, LAMBDA i : (b - 1) * 16 <= m.insts[i].address % 32
                                                  /\ m.insts[i].address % 32 < b * 16)]

split64ByteBlockTo32ByteBlocks(m, cacheBlock) ==
    [b \in 1..2 |-> SelectSeq(cacheBlock, LAMBDA i : (b - 1) * 32 <= m.insts[i].address % 64
                                                   /\ m.insts[i].address % 64 < b * 32)]

\* DSBEntry; an empty slot of a block is the entry without an instruction
DSBEntry(instrI, uop, MSUops, requiresExtraEntry) ==
    [instrI |-> instrI, uop |-> uop, MSUops |-> MSUops, requiresExtraEntry |-> requiresExtraEntry]
NoEntry == DSBEntry(None, None, <<>>, FALSE)

\* lines 631-635: the immediate needs a second entry; the immediates of the
\* model are 32-bit values, so that only the 16-bit test can succeed
RequiresExtraEntry(instr) ==
    instr.immediate # None
    /\ \/ ~(-2147483647 - 1 <= instr.immediate /\ instr.immediate <= 2147483647)
       \/ (~(-32768 <= instr.immediate /\ instr.immediate < 32768) /\ Len(instr.memAddrRegs) > 0)

\* lines 643-654: the entries of an instruction
DSBEntriesOf(i, instr, us, extra) ==
    IF instr.uopsMITE # 0
    THEN [k \in 1..Min(instr.uopsMITE, Len(us)) |->
             IF k = instr.uopsMITE
             THEN DSBEntry(i, us[k], SubSeq(us, instr.uopsMITE + 1, Len(us)), extra)
             ELSE DSBEntry(i, us[k], <<>>, FALSE)]
    ELSE IF instr.uopsMS # 0 THEN <<DSBEntry(i, None, us, FALSE)>>
    ELSE <<DSBEntry(i, None, <<>>, FALSE)>>

\* the entries are written into the last block from position pos on
WriteEntries(blocks, pos, entries) ==
    [blocks EXCEPT ![Len(blocks)] = [k \in 1..6 |->
        IF k > pos /\ k <= pos + Len(entries) THEN entries[k - pos] ELSE @[k]]]

\* lines 637-660: the position behind the entries of an instruction
PosAfter(pos, instr, us, extra) ==
    IF instr.uopsMS # 0 THEN 6
    ELSE pos + (IF instr.uopsMITE # 0 THEN Min(instr.uopsMITE, Len(us)) ELSE 1)
             + (IF extra THEN 1 ELSE 0)

\* FrontEnd.getDSBBlocks: the blocks of six entries of a cache block; pos is
\* posInCurBlock, the current block is the last one of blocks
RECURSIVE DSBBlocksFrom(_, _, _, _)
DSBBlocksFrom(m, cacheBlock, blocks, pos) ==
    LET Place(i, instr, us, extra) ==
            IF instr.uopsMS # 0 \/ pos + Max(1, instr.uopsMITE) + (IF extra THEN 1 ELSE 0) > 6
            THEN DSBBlocksFrom(m, Tail(cacheBlock),
                               WriteEntries(Append(blocks, [k \in 1..6 |-> NoEntry]), 0,
                                            DSBEntriesOf(i, instr, us, extra)),
                               PosAfter(0, instr, us, extra))
            ELSE DSBBlocksFrom(m, Tail(cacheBlock),
                               WriteEntries(blocks, pos, DSBEntriesOf(i, instr, us, extra)),
                               PosAfter(pos, instr, us, extra))
        Instr(i, instr) ==
            IF instr.macroFusedWithPrevInstr THEN DSBBlocksFrom(m, Tail(cacheBlock), blocks, pos)
            ELSE Place(i, instr, m.insts[i].uops, RequiresExtraEntry(instr))
    IN  IF cacheBlock = <<>> THEN blocks
        ELSE Instr(Head(cacheBlock), InstrOf(m.insts[Head(cacheBlock)]))

getDSBBlocks(m, cacheBlock) == DSBBlocksFrom(m, cacheBlock, <<>>, 6)

\* lines 608-618: the two 16-byte halves of a 32-byte block allow caching
HalvesCanBeCached(m, B32Block) ==
    LET halves == split32ByteBlockTo16ByteBlocks(m, B32Block)
        h1 == halves[1]
        h2 == halves[2]
        moves == h1 # <<>> /\ h2 # <<>>
                 /\ (m.insts[h1[Len(h1)]].address % 16) + InstrOf(m.insts[h1[Len(h1)]]).posNominalOpcode >= 16
        B16_1 == IF moves THEN SubSeq(h1, 1, Len(h1) - 1) ELSE h1
        B16_2 == IF moves THEN <<h1[Len(h1)]>> \o h2 ELSE h2
        lcpFusible(i) == InstrOf(m.insts[i]).lcpStall /\ InstrOf(m.insts[i]).macroFusible
    IN  ~(/\ B16_1 # <<>>
          /\ lcpFusible(B16_1[Len(B16_1)])
          /\ Len(SelectSeq(B16_2, lcpFusible)) >= 2)

\* FrontEnd.canBeCached
canBeCached(m, block) ==
    LET lastInstrI == m.insts[block[Len(block)]]
        B32Blocks == IF DSBBlockSize = 32 THEN <<block>> ELSE split64ByteBlockTo32ByteBlocks(m, block)
    IN  /\ Len(getDSBBlocks(m, block)) <= (IF DSBBlockSize = 32 THEN 3 ELSE 6)
        /\ \/ branchCanBeLastInstrInCachedBlock
           \/ ~(\/ InstrOf(lastInstrI).macroFusedWithNextInstr
                \/ (InstrOf(lastInstrI).isBranchInstr
                    /\ (lastInstrI.address % 32) + InstrOf(lastInstrI).len >= 32))
        /\ \A k \in 1..Len(B32Blocks) : HalvesCanBeCached(m, B32Blocks[k])

\* the blocks of the size of the DSB of a list of cache blocks, without the empty ones
SplitToDSBBlocks(m, cacheBlocks) ==
    SelectSeq(Flatten([k \in 1..Len(cacheBlocks) |->
                          IF DSBBlockSize = 32 THEN split64ByteBlockTo32ByteBlocks(m, cacheBlocks[k])
                          ELSE <<cacheBlocks[k]>>]),
              LAMBDA b : b # <<>>)

\* FrontEnd.findCacheableAddresses: the addresses of the blocks in front of the
\* first block that cannot be cached
RECURSIVE CacheableAddresses(_, _)
CacheableAddresses(m, blocks) ==
    IF blocks = <<>> \/ ~canBeCached(m, Head(blocks)) THEN {}
    ELSE {m.insts[i].address : i \in Range(Head(blocks))} \cup CacheableAddresses(m, Tail(blocks))

findCacheableAddresses(m, cacheBlocksForFirstRound) ==
    CacheableAddresses(m, SplitToDSBBlocks(m, cacheBlocksForFirstRound))

\* Instr.canBeUsedByLSD
canBeUsedByLSD(instr) ==
    /\ instr.uopsMS = 0
    /\ instr.implicitRSPChange = 0
    /\ \A k \in 1..Len(instr.inRegs \o instr.outRegs) : ~(instr.inRegs \o instr.outRegs)[k].h8

---------------------------------------------------------------------------
(* The legacy decode pipeline (uopSource is MITE) with unroll = True.  No   *)
(* address is in the DSB in this mode, so that every block goes to the     *)
(* predecoder.  m holds uops, fused, lams, insts, IDQ, fe.                  *)

instrInstanceCrosses16ByteBoundary(m, i) ==
    (m.insts[i].address % 16) + InstrOf(m.insts[i]).len > 16

split64ByteBlockTo16ByteBlocks(m, cacheBlock) ==
    [b \in 1..4 |-> SelectSeq(cacheBlock, LAMBDA i : (b - 1) * 16 <= m.insts[i].address % 64
                                                    /\ m.insts[i].address % 64 < b * 16)]

RECURSIVE AppendB16Blocks(_, _)
AppendB16Blocks(m, blocks) ==
    IF blocks = <<>> THEN m
    ELSE IF Head(blocks) = <<>> THEN AppendB16Blocks(m, Tail(blocks))
    ELSE LET B16Block == Head(blocks)
             lastInstrI == m.insts[B16Block[Len(B16Block)]]
             endsInNext == InstrOf(lastInstrI).isBranchInstr
                           /\ (lastInstrI.address % 16) + InstrOf(lastInstrI).len > 16
         IN  AppendB16Blocks([m EXCEPT !.fe.B16BlockQueue =
                                  IF endsInNext THEN @ \o <<B16Block, <<>>>> ELSE Append(@, B16Block)],
                             Tail(blocks))

\* lines 674-696: the blocks of a cache block go to the DSB or to the predecoder
RECURSIVE AddBlocks(_, _)
AddBlocks(m, blocks) ==
    LET block == Head(blocks)
        Mark(src) == [m EXCEPT !.insts = [i \in DOMAIN @ |->
                          IF i \in Range(block) THEN [@[i] EXCEPT !.source = src] ELSE @[i]]]
        ToDSB(m1) == [m1 EXCEPT !.fe.DSBBlockQueue = @ \o getDSBBlocks(m1, block)]
    IN  IF blocks = <<>> THEN m
        ELSE IF block = <<>> THEN AddBlocks(m, Tail(blocks))
        ELSE IF m.insts[block[1]].address \in m.fe.addressesInDSB
        THEN AddBlocks(ToDSB(Mark("DSB")), Tail(blocks))
        ELSE AddBlocks(AppendB16Blocks(Mark("MITE"),
                                       IF DSBBlockSize = 32 THEN split32ByteBlockTo16ByteBlocks(m, block)
                                       ELSE split64ByteBlockTo16ByteBlocks(m, block)),
                       Tail(blocks))

\* lines 666-671: with the LSD the uops of the block go to the IDQ directly
AddToLSD(m, cacheBlock) ==
    LET ls == Flatten([k \in 1..Len(cacheBlock) |-> m.insts[cacheBlock[k]].uops])
    IN  [m EXCEPT !.IDQ = @ \o ls,
                  !.insts = [i \in DOMAIN @ |->
                                IF i \in Range(cacheBlock) THEN [@[i] EXCEPT !.source = "LSD"] ELSE @[i]],
                  !.lams = [l \in DOMAIN @ |->
                               IF l \in Range(ls) THEN [@[l] EXCEPT !.uopSource = "LSD"] ELSE @[l]]]

addNewCacheBlock(m, cacheBlock) ==
    IF m.fe.uopSource = "LSD" THEN AddToLSD(m, cacheBlock)
    ELSE AddBlocks(m, IF DSBBlockSize = 32 THEN split64ByteBlockTo32ByteBlocks(m, cacheBlock)
                      ELSE <<cacheBlock>>)

RECURSIVE addNewCacheBlocks(_, _)
addNewCacheBlocks(m, cacheBlocks) ==
    IF cacheBlocks = <<>> THEN m
    ELSE addNewCacheBlocks(addNewCacheBlock(m, Head(cacheBlocks)), Tail(cacheBlocks))

\* lines 539-544
RECURSIVE LoadCacheBlocks(_)
LoadCacheBlocks(m) ==
    IF Len(m.fe.DSBBlockQueue) >= 2 \/ Len(m.fe.B16BlockQueue) >= 4 THEN m
    ELSE LET Add(nb) == LoadCacheBlocks(addNewCacheBlock(nb.m, nb.block))
             AddRound(nr) == LoadCacheBlocks(addNewCacheBlocks(nr.m, nr.blocks))
         IN  IF unroll THEN Add(NextCacheBlock(m, <<>>)) ELSE AddRound(NextRoundBlocks(m))

\* lines 903-906
RECURSIVE TakeFromBlock(_, _, _)
TakeFromBlock(m, curBlock, q) ==
    IF curBlock = <<>> \/ Len(q) >= PreDecodeWidth
       \/ instrInstanceCrosses16ByteBoundary(m, Head(curBlock))
    THEN [curBlock |-> curBlock, q |-> q]
    ELSE TakeFromBlock(m, Tail(curBlock), Append(q, Head(curBlock)))

\* line 912
PartialFits(n) == n < 5

\* lines 896-919: a new group of instructions enters the predecode queue
NewPreDecodeGroup(m) ==
    LET f == m.fe
        q0 == IF f.partialInstrI # None THEN <<f.partialInstrI>> ELSE <<>>
        isPartial(t) ==
            /\ Len(t.curBlock) = 1
            /\ instrInstanceCrosses16ByteBoundary(m, t.curBlock[1])
            /\ \/ PartialFits(Len(t.q))
               \/ (m.insts[t.curBlock[1]].address % 16)
                    + InstrOf(m.insts[t.curBlock[1]]).posNominalOpcode >= 16
        Group(q, curBlock, partialInstrI) ==
            [m EXCEPT !.fe.partialInstrI = partialInstrI,
                      !.fe.B16BlockQueue =
                          IF @ = <<>> THEN @
                          ELSE IF curBlock = <<>> THEN Tail(@) ELSE <<curBlock>> \o Tail(@),
                      !.fe.preDecQueue = q,
                      !.fe.pdStalled = SumSeq([k \in 1..Len(q) |->
                                           IF InstrOf(m.insts[q[k]]).lcpStall THEN 3 ELSE 0])]
        Split(t, partial) ==
            IF partial THEN Group(t.q, <<>>, t.curBlock[1]) ELSE Group(t.q, t.curBlock, None)
        Taken(t) == Split(t, isPartial(t))
    IN  IF f.B16BlockQueue = <<>> THEN Group(q0, <<>>, None)
        ELSE Taken(TakeFromBlock(m, Head(f.B16BlockQueue), q0))

\* lines 921-925
DeliverPreDecQueue(m, clk) ==
    [m EXCEPT !.insts = [i \in DOMAIN @ |->
                            IF i \in Range(m.fe.preDecQueue) THEN [@[i] EXCEPT !.predecoded = clk]
                            ELSE @[i]],
              !.fe.instructionQueue = @ \o m.fe.preDecQueue,
              !.fe.preDecQueue = <<>>]

\* a variant in which the predecoder never waits for the instruction queue
IQAlwaysHasRoom(iq) == TRUE

\* line 895: a new group is only predecoded if it fits into the instruction queue
IQHasRoom(iq) == Len(iq) + PreDecodeWidth <= IQWidth

PreDecoderCycle(m, clk) ==
    LET f == m.fe
        Deliver(m1) == IF m1.fe.pdStalled = 0 THEN DeliverPreDecQueue(m1, clk) ELSE m1
        Decrement(m3) == [m3 EXCEPT !.fe.pdStalled = Max(0, @ - 1)]
    IN  Decrement(IF f.pdStalled # 0 THEN m
                  ELSE Deliver(IF /\ f.preDecQueue = <<>>
                                  /\ (f.B16BlockQueue # <<>> \/ f.partialInstrI # None)
                                  /\ IQHasRoom(f.instructionQueue)
                               THEN NewPreDecodeGroup(m) ELSE m))

\* MicrocodeSequencer.addUops
MSaddUops(m, ls, prevUopSource) ==
    [m EXCEPT !.fe.MSuopQueue = @ \o ls,
              !.lams = [l \in DOMAIN @ |-> IF l \in Range(ls) THEN [@[l] EXCEPT !.uopSource = "MS"]
                                           ELSE @[l]],
              !.fe.MSstalled = IF prevUopSource = "MITE" THEN 1
                               ELSE IF prevUopSource = "DSB" THEN DSB_MS_Stall ELSE @,
              !.fe.MSpostStall = IF prevUopSource = "MITE" THEN 1
                                 ELSE IF prevUopSource = "DSB" THEN 0 ELSE @]

MSisBusy(f) == Len(f.MSuopQueue) > 0 \/ f.MSstalled # 0

\* a variant of the sequencer that empties its queue in one cycle
MScycleWholeQueue(m) ==
    LET f == m.fe
    IN  IF f.MSstalled # 0 THEN [m |-> [m EXCEPT !.fe.MSstalled = @ - 1], newUops |-> <<>>]
        ELSE [m |-> [m EXCEPT !.fe.MSuopQueue = <<>>,
                              !.fe.MSstalled = IF f.MSuopQueue # <<>> THEN f.MSpostStall ELSE @],
              newUops |-> f.MSuopQueue]

\* MicrocodeSequencer.cycle: the new state and the uops
MScycle(m) ==
    LET f == m.fe
        n == Min(4, Len(f.MSuopQueue))
    IN  IF f.MSstalled # 0 THEN [m |-> [m EXCEPT !.fe.MSstalled = @ - 1], newUops |-> <<>>]
        ELSE IF f.MSuopQueue # <<>>
        THEN [m |-> [m EXCEPT !.fe.MSuopQueue = SubSeq(@, n + 1, Len(@)),
                              !.fe.MSstalled = IF n = Len(f.MSuopQueue) THEN f.MSpostStall ELSE @],
              newUops |-> SubSeq(f.MSuopQueue, 1, n)]
        ELSE [m |-> m, newUops |-> <<>>]

\* Decoder.cycle: d holds m, uopsList, nDecodedInstrs, remainingDecoderSlots;
\* uopsList holds the laminated uops (None for an instruction without uops)
RECURSIVE DecoderLoop(_, _)
DecoderLoop(d, clk) ==
    LET m == d.m
        iq == m.fe.instructionQueue
        i == Head(iq)
        instr == InstrOf(m.insts[i])
        popped == [m EXCEPT !.fe.instructionQueue = Tail(@), !.insts[i].removedFromIQ = clk]
        mite == SubSeq(m.insts[i].uops, 1, Min(instr.uopsMITE, Len(m.insts[i].uops)))
        ms == SubSeq(m.insts[i].uops, instr.uopsMITE + 1, Len(m.insts[i].uops))
        marked == [popped EXCEPT !.lams = [l \in DOMAIN @ |->
                       IF l \in Range(mite) THEN [@[l] EXCEPT !.uopSource = "MITE"] ELSE @[l]]]
        uopsList == d.uopsList \o (IF instr.uopsMITE # 0 THEN mite ELSE <<None>>)
        slots == IF instr.complexDecoder
                 THEN Min(d.remainingDecoderSlots - 1, instr.nAvailableSimpleDecoders)
                 ELSE d.remainingDecoderSlots - 1
    IN  IF iq = <<>> THEN d
        ELSE IF instr.macroFusedWithPrevInstr THEN DecoderLoop([d EXCEPT !.m = popped], clk)
        ELSE IF m.insts[i].predecoded + PredecodeDecodeDelay > clk THEN d
        ELSE IF d.uopsList # <<>> /\ instr.complexDecoder THEN d
        ELSE IF instr.macroFusible
                /\ (\/ d.nDecodedInstrs = NDecoders - 1
                    \/ Len(iq) <= 1
                    \/ m.insts[iq[2]].predecoded + PredecodeDecodeDelay > clk)
        THEN d
        ELSE IF instr.uopsMS # 0
        THEN [d EXCEPT !.m = MSaddUops(marked, ms, "MITE"), !.uopsList = uopsList, !.lastInstrI = i]
        ELSE IF slots <= 0 \/ instr.isBranchInstr \/ instr.macroFusedWithNextInstr
        THEN [d EXCEPT !.m = marked, !.uopsList = uopsList, !.lastInstrI = i]
        ELSE DecoderLoop([m |-> marked, uopsList |-> uopsList, lastInstrI |-> i,
                          nDecodedInstrs |-> d.nDecodedInstrs + 1,
                          remainingDecoderSlots |-> slots], clk)

DecoderCycle(m, clk) ==
    DecoderLoop([m |-> m, uopsList |-> <<>>, lastInstrI |-> None, nDecodedInstrs |-> 0,
                 remainingDecoderSlots |-> NDecoders], clk)

\* lines 571-574
RECURSIVE AppendToIDQ(_, _, _)
AppendToIDQ(m, newUops, clk) ==
    IF newUops = <<>> THEN m
    ELSE AppendToIDQ([addStackSyncUop(m, UnfusedOfLam(m, Head(newUops))[1], clk)
                        EXCEPT !.IDQ = Append(@, Head(newUops)),
                               !.lams[Head(newUops)].addedToIDQ = clk],
                     Tail(newUops), clk)

\* the block DSB.cycle works on: the head of the queue, or a block of its own
\* after the head was replaced (line 765) or removed from the queue
DSBBlockOf(d) == IF d.det THEN d.local ELSE d.m.fe.DSBBlockQueue[1]
SetDSBBlock(d, block) ==
    IF d.det THEN [d EXCEPT !.local = block] ELSE [d EXCEPT !.m.fe.DSBBlockQueue[1] = block]

AllNone(block) == \A k \in 1..Len(block) : block[k] = NoEntry

\* lines 735-743: the empty slots at the head of the queue are removed
RECURSIVE DSBSkipEmpty(_)
DSBSkipEmpty(m) ==
    LET q == m.fe.DSBBlockQueue
    IN  IF q[1][1] # NoEntry THEN [m |-> m, empty |-> FALSE]
        ELSE IF Len(q[1]) > 1 THEN DSBSkipEmpty([m EXCEPT !.fe.DSBBlockQueue[1] = Tail(@)])
        ELSE IF Len(q) > 1 THEN DSBSkipEmpty([m EXCEPT !.fe.DSBBlockQueue = Tail(@)])
        ELSE [m |-> [m EXCEPT !.fe.DSBBlockQueue = <<>>], empty |-> TRUE]

\* lines 758-767: the rest of a block whose remaining slots are empty is dropped
\* if the next block belongs to another 32-byte block
DropRest(d, entry) ==
    LET q == d.m.fe.DSBBlockQueue
        block == DSBBlockOf(d)
        instr == InstrOf(d.m.insts[entry.instrI])
    IN  IF entry # NoEntry /\ AllNone(block)
           /\ Len(q) > 1
           /\ (DSBBlockSize = 64
               \/ d.m.insts[q[2][1].instrI].address \div 32 # d.m.insts[entry.instrI].address \div 32)
        THEN IF instr.isBranchInstr \/ instr.macroFusedWithNextInstr
             THEN IF Len(block) = 5 THEN [d EXCEPT !.det = TRUE, !.local = <<NoEntry>>]
                  ELSE IF Len(block) = 4 THEN SetDSBBlock(d, <<>>)
                  ELSE d
             ELSE SetDSBBlock(d, <<>>)
        ELSE d

\* lines 769-770: an empty block leaves the queue
PopEmptyBlock(d) ==
    IF DSBBlockOf(d) = <<>>
    THEN [d EXCEPT !.m.fe.DSBBlockQueue = Tail(@), !.det = TRUE, !.local = <<>>]
    ELSE d

\* lines 775-783: the entry is delivered
DeliverEntry(d, entry) ==
    LET withUop == IF entry.uop # None
                   THEN [d EXCEPT !.retList = Append(@, [instrI |-> entry.instrI, uop |-> entry.uop]),
                                  !.m.lams[entry.uop].uopSource = "DSB"]
                   ELSE d
    IN  IF entry.MSUops # <<>>
        THEN [withUop EXCEPT !.m = MSaddUops(@, entry.MSUops, "DSB"), !.n = 0]
        ELSE IF entry.requiresExtraEntry THEN [withUop EXCEPT !.n = 0]
        ELSE [withUop EXCEPT !.n = @ - 1]

\* lines 747-783: one iteration of the loop over the DSBWidth slots; n = 0 ends it
RECURSIVE DSBLoop(_)
DSBLoop(d) ==
    LET q == d.m.fe.DSBBlockQueue
        prevInstrI == d.m.insts[d.retList[Len(d.retList)].instrI]
        contiguous == \/ prevInstrI.address + InstrOf(prevInstrI).len = d.m.insts[q[1][1].instrI].address
                      \/ InstrOf(prevInstrI).isBranchInstr
                      \/ InstrOf(prevInstrI).macroFusedWithNextInstr
        Take(d1) ==
            LET entry == DSBBlockOf(d1)[1]
                Popped(d2) == PopEmptyBlock(DropRest(d2, entry))
                After(d3) == IF entry = NoEntry THEN DSBLoop([d3 EXCEPT !.n = @ - 1])
                             ELSE DSBLoop(DeliverEntry(d3, entry))
            IN  IF entry # NoEntry /\ entry.requiresExtraEntry /\ Len(d1.retList) = DSBWidth - 1
                THEN d1
                ELSE After(Popped(SetDSBBlock(d1, Tail(DSBBlockOf(d1)))))
    IN  IF d.n = 0 THEN d
        ELSE IF DSBBlockOf(d) = <<>>
        THEN IF ~d.second /\ q # <<>>
             THEN IF contiguous THEN Take([d EXCEPT !.second = TRUE, !.det = FALSE]) ELSE d
             ELSE d
        ELSE Take(d)

\* DSB.cycle: the new state and the list of (instrI, uop)
DSBcycle(m) ==
    LET Run(sk) == IF sk.empty THEN [m |-> sk.m, retList |-> <<>>]
                   ELSE DSBLoop([m |-> sk.m, retList |-> <<>>, second |-> FALSE, det |-> FALSE,
                                 local |-> <<>>, n |-> DSBWidth])
    IN  Run(DSBSkipEmpty(m))

\* lines 551-556: after a branch the legacy decoder hands over to the DSB
AfterDecoder(d) ==
    IF ~unroll /\ d.uopsList # <<>>
       /\ (InstrOf(d.m.insts[d.lastInstrI]).isBranchInstr
           \/ InstrOf(d.m.insts[d.lastInstrI]).macroFusedWithNextInstr)
       /\ AlignmentOffset \in d.m.fe.addressesInDSB
    THEN [d.m EXCEPT !.fe.uopSource = "DSB"]
    ELSE d.m

\* lines 560-569: the DSB hands over to the legacy decoder if the next
\* instruction is not in the DSB
AfterDSB(d) ==
    LET newUops == [k \in 1..Len(d.retList) |-> d.retList[k].uop]
        us == UnfusedOfLam(d.m, newUops[Len(newUops)])
        curInstrI == d.m.insts[d.retList[Len(d.retList)].instrI]
        nextAddr == IF InstrOf(curInstrI).isBranchInstr \/ InstrOf(curInstrI).macroFusedWithNextInstr
                    THEN AlignmentOffset
                    ELSE curInstrI.address + InstrOf(curInstrI).len
    IN  IF newUops # <<>> /\ PropOf(d.m.uops[us[Len(us)]]).last /\ nextAddr \notin d.m.fe.addressesInDSB
        THEN [d.m EXCEPT !.fe.uopSource = "MITE"]
        ELSE d.m

\* lines 537-574: the front end with the predecoder, the decoders, the DSB and
\* the microcode sequencer
MITEFrontEnd(m, clk) ==
    LET FromMS(c) == AppendToIDQ(c.m, c.newUops, clk)
        FromDecoder(d) == AppendToIDQ(AfterDecoder(d), SelectSeq(d.uopsList, LAMBDA l : l # None), clk)
        FromDSB(d) == AppendToIDQ(AfterDSB(d), [k \in 1..Len(d.retList) |-> d.retList[k].uop], clk)
        Feed(m1) == IF MSisBusy(m1.fe) THEN FromMS(MScycle(m1))
                    ELSE IF m1.fe.uopSource = "MITE"
                    THEN FromDecoder(DecoderCycle(PreDecoderCycle(m1, clk), clk))
                    ELSE FromDSB(DSBcycle(m1))
    IN  Feed(LoadCacheBlocks(m))

\* lines 532-536: the loop stream detector refills the empty IDQ
LSDFrontEnd(m) ==
    LET RECURSIVE Rounds(_, _)
        Rounds(m1, k) ==
            LET Add(nr) == Rounds(addNewCacheBlocks(nr.m, nr.blocks), k - 1)
            IN  IF k = 0 THEN m1 ELSE Add(NextRoundBlocks(m1))
    IN  IF m.IDQ = <<>> THEN Rounds(m, m.fe.LSDUnrollCount) ELSE m

IDQisFull(idq) == Len(idq) + DSBWidth > IDQWidth

\* lines 520-574: the front end fills the IDQ
FillIDQ(m, clk) ==
    IF IDQisFull(m.IDQ) THEN m
    ELSE IF simpleFrontEnd THEN SimpleFrontEnd(m, clk)
    ELSE IF m.fe.uopSource = "LSD" THEN LSDFrontEnd(m)
    ELSE MITEFrontEnd(m, clk)

---------------------------------------------------------------------------
(* The simulation: main() and FrontEnd.cycle, one step per component.       *)

\* the instruction sequences that are simulated
Programs ==
    { <<ADD, LDADD, ST, LD>>,
      <<DIV, ADD, MOV>>,
      <<ADD, DIV, DIV>>,
      <<XCHGH, LDADD>>,
      <<PUSH, ADDSP, POP, NOP2>>,
      <<LFENCE, LD, MFENCE, ST>>,
      <<LCPADD, NOP2, NOP2, NOP2, NOP2, ADD15>>,
      <<MSI, MOV, ADD>>,
      <<LDADD, LDADD, ST>>,
      <<NOP2, ADDSP, NOP2>>,
      <<DIV, IMUL>>,
      <<MOV, NOP2, ADD>>,
      <<PUSHI>>,
      <<WIDE>>,
      <<PUSHM>>,
      <<ADD, LFENCE>>,
      <<XCHGH, PUSH, ADDSP>>,
      <<MOVAPS, MOV, PADDD>>,
      <<ST, XORZ, LD>>,
      <<ADD, LDADD, MFENCE>>,
      <<ST, MFENCE>>,
      <<DIV, DIVB>>,
      <<PUSH, MSO>>,
      <<TRI, ADD>> }

\* the sequences for a machine with 10 ports: stores to one cache line, to two
\* cache lines, and with an instruction that the port heuristic places
Programs10 ==
    { <<ST0, ST8>>,
      <<ST0, ST64>>,
      <<ADD10, ST0, ST8>>,
      <<LD, ST0, ST8>> }

\* the sequences for a machine with 6 ports: vector instructions on ports 0, 1, 5,
\* additions on ports 0, 1, and loads
Programs6 ==
    { <<MOVAPS, MOV, PADDD>>,
      <<ADD, LDADD, LD>> }

\* the loops: the last instruction is a branch
ProgramsLoop ==
    { <<ADD3, JNZ>>,
      <<MSI, JNZ>>,
      <<PUSH, POP, JNZ>>,
      <<XCHGH, JNZ>>,
      <<ADD3, ADD3, ADD3, ADD3, ADD3, ADD3, ADD3, JNZ>>,
      <<ADD15, ADD15, JNZ>>,
      <<ADD15, ADD15, NOP2, ADD15, ADD15, JNZ>>,
      \* a cached 32-byte block that ends with a microcoded instruction, followed
      \* by a block that is not cached (its branch ends at the block's end)
      <<ADD15, ADD, NOP2, MSI, ADD15, ADD15, JNZ>> }

\* the loops that are also simulated without the loop stream detector
ProgramsNoLSD == { <<ADD3, JNZ>> }

\* the programs simulated on the wider machine: a chain of additions, and a
\* multiplication whose result two instructions of different forms consume, each
\* followed by a POPCNT of its result
ProgramsWide ==
    { <<ADD3>>,
      <<IMUL, MOVSX, LEA, POPCNT("R8", "RAX"), POPCNT("R9", "RCX")>> }

\* the microarchitectures: a small one with 8 ports, one with larger buffers, and
\* one with 10 ports
SmallConfig == [RBWidth |-> RBWidth, RSWidth |-> RSWidth, allPorts |-> AllPorts, LSDEnabled |-> TRUE]
WideConfig == [RBWidth |-> WideRBWidth, RSWidth |-> WideRSWidth, allPorts |-> AllPorts, LSDEnabled |-> TRUE]
Config10 == [RBWidth |-> RBWidth, RSWidth |-> RSWidth, allPorts |-> AllPorts10, LSDEnabled |-> TRUE]
Config6 == [RBWidth |-> RBWidth, RSWidth |-> RSWidth, allPorts |-> AllPorts6, LSDEnabled |-> TRUE]
NoLSDConfig == [SmallConfig EXCEPT !.LSDEnabled = FALSE]

\* the simulations: a microarchitecture and an instruction sequence
Runs ==
    {[uArchConfig |-> SmallConfig, program |-> p] : p \in Programs}
    \cup {[uArchConfig |-> WideConfig, program |-> p] : p \in ProgramsWide}
    \cup {[uArchConfig |-> Config10, program |-> p] : p \in Programs10}
    \cup {[uArchConfig |-> Config6, program |-> p] : p \in Programs6}
    \cup {[uArchConfig |-> SmallConfig, program |-> p] : p \in ProgramsLoop}
    \cup {[uArchConfig |-> NoLSDConfig, program |-> p] : p \in ProgramsNoLSD}

InitRenamer ==
    [renameDict |-> EmptyDict, curInstrRndRenameDict |-> EmptyDict,
     curInstrPseudoOpDict |-> EmptyDict,
     abstractValueDict |-> [r \in {"RSP", "RBP"} |-> IF r = "RSP" THEN 1 ELSE 2],
     curInstrRndAbstractValueDict |-> EmptyDict, nextAbstractValue |-> 3,
     nGPRMoveElimInCycle |-> EmptyDict, multiUseGPRDict |-> EmptyDict,
     multiUseGPRDictUseInCycle |-> EmptyDict, renamerActiveCycle |-> 0,
     nSIMDMoveElimInCycle |-> EmptyDict, multiUseSIMDDict |-> EmptyDict,
     multiUseSIMDDictUseInCycle |-> EmptyDict,
     curStoreBufferEntry |-> None, storeBufferEntryDict |-> EmptyDict,
     lastRegMergeIssued |-> None]

InitScheduler ==
    [uops |-> {}, portUsage |-> [p \in Range(uArchConfig.allPorts) |-> 0],
     portUsageAtStartOfCycle |-> [p \in Range(uArchConfig.allPorts) |-> 0],
     portUsageAtStartOfPrevCycle |-> [p \in Range(uArchConfig.allPorts) |-> 0],
     portCombinationsInCurCycle |-> EmptyDict,
     nextP23Port |-> 2, nextP49Port |-> 4, nextP78Port |-> 7, uopsDispatchedInPrevCycle |-> <<>>, divBusy |-> 0,
     readyQueue |-> [p \in Range(uArchConfig.allPorts) |-> {}], readyDivUops |-> {},
     uopsReadyInCycle |-> EmptyDict, nonReadyUops |-> <<>>, pendingUops |-> {},
     pendingStoreFenceUops |-> <<>>, storeUopsSinceLastStoreFence |-> <<>>,
     pendingLoadFenceUops |-> <<>>, loadUopsSinceLastLoadFence |-> <<>>,
     blockedResources |-> EmptyDict, dependentUops |-> EmptyDict]

InitFrontEnd ==
    [RSPOffset |-> 0, gen |-> [pos |-> 1, nextAddr |-> AlignmentOffset, rnd |-> 0],
     B16BlockQueue |-> <<>>, instructionQueue |-> <<>>, preDecQueue |-> <<>>,
     pdStalled |-> 0, partialInstrI |-> None,
     MSuopQueue |-> <<>>, MSstalled |-> 0, MSpostStall |-> 0,
     uopSource |-> IF simpleFrontEnd THEN "None" ELSE "MITE", LSDUnrollCount |-> 1,
     DSBBlockQueue |-> <<>>, addressesInDSB |-> {}]

\* the number of copies of the loop body that the LSD puts into the IDQ
LSDUnrolling(nUops) == IF nUops <= 2 THEN 2 ELSE 1

\* a variant of the conditions that does not look at the instructions
LSDAdmittedBySize(m, cacheBlocksForFirstRound) ==
    uArchConfig.LSDEnabled
    /\ SumSeq([k \in 1..Len(Flatten(cacheBlocksForFirstRound)) |->
                  Len(m.insts[Flatten(cacheBlocksForFirstRound)[k]].uops)]) <= IDQWidth

\* line 489: the laminated uops of the first round
NUops(m, cacheBlocks) ==
    SumSeq([k \in 1..Len(Flatten(cacheBlocks)) |-> Len(m.insts[Flatten(cacheBlocks)[k]].uops)])

AllBlocksCanBeCached(m, blocks) == \A k \in 1..Len(blocks) : canBeCached(m, blocks[k])
AllInstrsCanBeUsedByLSD(m, instrIs) ==
    \A k \in 1..Len(instrIs) : canBeUsedByLSD(InstrOf(m.insts[instrIs[k]]))

\* lines 483-490: the conditions for the loop stream detector
LSDAdmitted(m, cacheBlocksForFirstRound) ==
    /\ AllBlocksCanBeCached(m, SplitToDSBBlocks(m, cacheBlocksForFirstRound))
    /\ uArchConfig.LSDEnabled
    /\ AllInstrsCanBeUsedByLSD(m, Flatten(cacheBlocksForFirstRound))
    /\ NUops(m, cacheBlocksForFirstRound) <= IDQWidth

\* lines 493-494: the further copies of the loop body
RECURSIVE AddLSDRounds(_, _)
AddLSDRounds(m, k) ==
    LET Add(nr) == AddLSDRounds(addNewCacheBlocks(nr.m, nr.blocks), k - 1)
    IN  IF k = 0 THEN m ELSE Add(NextRoundBlocks(m))

\* FrontEnd.__init__, lines 481-504, in loop mode with the full front end
InitLoop(m) ==
    LET NoLSD(loaded) ==
            IF AlignmentOffset \in loaded.fe.addressesInDSB
            THEN [loaded EXCEPT !.fe.uopSource = "DSB"]
            ELSE loaded
        WithLSD(m1, blocks, n) ==
            AddLSDRounds(addNewCacheBlocks([m1 EXCEPT !.fe.uopSource = "LSD",
                                                      !.fe.LSDUnrollCount = n], blocks),
                         n - 1)
        Choose(m1, blocks) ==
            IF LSDAdmitted(m1, blocks) THEN WithLSD(m1, blocks, LSDUnrolling(NUops(m1, blocks)))
            ELSE NoLSD(addNewCacheBlocks(
                     [m1 EXCEPT !.fe.addressesInDSB = findCacheableAddresses(m1, blocks)], blocks))
        First(nr) == Choose(nr.m, nr.blocks)
    IN  First(NextRoundBlocks(m))

\* FrontEnd.__init__: the objects after construction
InitObjects ==
    LET Construct(m) == IF unroll \/ simpleFrontEnd THEN m ELSE InitLoop(m)
    IN  Construct([uops |-> <<>>, fused |-> <<>>, lams |-> <<>>, insts |-> <<>>, IDQ |-> <<>>,
                   fe |-> InitFrontEnd])

Init ==
    /\ \E run \in Runs :
          /\ uArchConfig = run.uArchConfig
          /\ instructions = ProcessedInstructions(run.program)
    /\ simpleFrontEnd \in BOOLEAN
    /\ clock = 0
    /\ pc = "renamer"
    /\ LET Store(m) ==
               /\ uops = m.uops /\ fused = m.fused /\ lams = m.lams /\ insts = m.insts
               /\ IDQ = m.IDQ /\ fe = m.fe
       IN  Store(InitObjects)
    /\ renOps = <<>> /\ sbs = <<>>
    /\ RB = <<>> /\ retireQueue = <<>> /\ issueUops = <<>>
    /\ ren = InitRenamer
    /\ sched = InitScheduler
    /\ perf = {}
    /\ rnd = 0

\* a variant of the order of the steps: the sinks first
StepAfterSinksFirst(step) ==
    CASE step = "sched" -> "rb"
      [] step = "rb" -> "renamer"
      [] step = "renamer" -> "frontend"
      [] OTHER -> "main"

\* FrontEnd.cycle, lines 503-520: the renamer, the reorder buffer, the scheduler,
\* then the refill of the IDQ; "main" is the rest of the loop body of main()
StepAfter(step) ==
    CASE step = "renamer" -> "rb"
      [] step = "rb" -> "sched"
      [] step = "sched" -> "frontend"
      [] OTHER -> "main"

\* a variant in which the uops count as issued one cycle later
IssueStampNext(clk) == clk + 1

\* the cycle in which the renamer's uops count as issued (line 508)
IssueStamp(clk) == clk

\* FrontEnd.cycle, lines 503-508
RenamerStep ==
    /\ pc = "renamer"
    /\ LET Issue(r) ==
               /\ uops' = r.m.uops
               /\ fused' = [f \in DOMAIN r.m.fused |->
                               IF f \in Range(r.renamerUops)
                               THEN [r.m.fused[f] EXCEPT !.issued = IssueStamp(clock)]
                               ELSE r.m.fused[f]]
               /\ lams' = r.m.lams
               /\ insts' = r.m.insts
               /\ renOps' = r.m.renOps
               /\ sbs' = r.m.sbs
               /\ IDQ' = r.m.IDQ
               /\ ren' = r.m.ren
               /\ issueUops' = r.renamerUops
           Run(m) == Issue(IF ~RBisFull(RB) /\ ~SchedIsFull(sched) THEN RenamerCycle(m, RBisEmpty(RB))
                           ELSE [m |-> m, renamerUops |-> <<>>])
       IN  Run([uops |-> uops, fused |-> fused, lams |-> lams, insts |-> insts,
                renOps |-> renOps, sbs |-> sbs, IDQ |-> IDQ, ren |-> ren])
    /\ pc' = StepAfter(pc)
    /\ UNCHANGED <<instructions, simpleFrontEnd, uArchConfig, clock, RB, retireQueue, sched, fe, perf, rnd>>

\* line 510
ReorderBufferStep ==
    /\ pc = "rb"
    /\ LET Store(m) ==
               /\ uops' = m.uops
               /\ fused' = m.fused
               /\ RB' = m.RB
               /\ retireQueue' = m.retireQueue
       IN  Store(RBcycle([uops |-> uops, fused |-> fused, RB |-> RB, retireQueue |-> retireQueue],
                         issueUops, clock))
    /\ pc' = StepAfter(pc)
    /\ UNCHANGED <<instructions, simpleFrontEnd, uArchConfig, clock, lams, insts, renOps, sbs, IDQ, issueUops,
                   ren, sched, fe, perf, rnd>>

\* line 511; the set pendingUops is traversed in some order
SchedulerStep ==
    /\ pc = "sched"
    /\ LET Store(m2) ==
               /\ uops' = m2.uops
               /\ sbs' = m2.sbs
               /\ sched' = m2.sched
           Process(m1) ==
               \E order \in Perms(m1.sched.pendingUops) :
                   Store(SchedulerCycleProcess(m1, order, clock))
       IN  Process(SchedulerCycleDispatch(
                      [uops |-> uops, fused |-> fused, renOps |-> renOps, sbs |-> sbs, sched |-> sched],
                      issueUops, clock))
    /\ pc' = StepAfter(pc)
    /\ UNCHANGED <<instructions, simpleFrontEnd, uArchConfig, clock, fused, lams, insts, renOps, IDQ, RB,
                   retireQueue, issueUops, ren, fe, perf, rnd>>

\* lines 513-521
PerfEvents ==
    (IF RBisFull(RB) THEN {"RBFull"} ELSE {})
    \cup (IF SchedIsFull(sched) THEN {"RSFull"} ELSE {})
    \cup (IF Len(fe.instructionQueue) + PreDecodeWidth > IQWidth THEN {"IQFull"} ELSE {})
    \cup (IF IDQisFull(IDQ) THEN {"IDQFull"} ELSE {})

\* DSB.cycle, line 734: DSBBlockQueue[0] raises an IndexError if the queue is
\* empty when the DSB is asked for uops; the simulation ends with the exception
DSBQueueRunsDry(m) ==
    /\ ~simpleFrontEnd
    /\ ~IDQisFull(m.IDQ)
    /\ m.fe.uopSource = "DSB"
    /\ LET Dry(m1) == ~MSisBusy(m1.fe) /\ m1.fe.DSBBlockQueue = <<>>
       IN  Dry(LoadCacheBlocks(m))

\* lines 513-574
FrontEndStep ==
    /\ pc = "frontend"
    /\ ~DSBQueueRunsDry([uops |-> uops, fused |-> fused, lams |-> lams, insts |-> insts,
                         IDQ |-> IDQ, fe |-> fe])
    /\ LET Store(m) ==
               /\ uops' = m.uops
               /\ fused' = m.fused
               /\ lams' = m.lams
               /\ insts' = m.insts
               /\ IDQ' = m.IDQ
               /\ fe' = m.fe
       IN  Store(FillIDQ([uops |-> uops, fused |-> fused, lams |-> lams, insts |-> insts,
                          IDQ |-> IDQ, fe |-> fe], clock))
    /\ perf' = PerfEvents
    /\ pc' = StepAfter(pc)
    /\ UNCHANGED <<instructions, simpleFrontEnd, uArchConfig, clock, renOps, sbs, RB, retireQueue, issueUops,
                   ren, sched, rnd>>

\* main(), lines 2270-2279: the round of the uops retired in this cycle
RoundAfter(r, queue) ==
    IF queue = <<>> THEN r
    ELSE insts[uops[fused[queue[Len(queue)]].uops[1]].instrI].rnd

\* main(), lines 2268-2284: the retire queue is emptied and the clock advances
Tick ==
    /\ pc = "main"
    /\ clock < MaxClock
    /\ rnd' = RoundAfter(rnd, retireQueue)
    /\ retireQueue' = <<>>
    /\ clock' = clock + 1
    /\ pc' = "renamer"
    /\ UNCHANGED <<instructions, simpleFrontEnd, uArchConfig, uops, fused, lams, insts, renOps, sbs, IDQ, RB,
                   issueUops, ren, sched, fe, perf>>

\* the simulation ends
Stop ==
    /\ pc = "main"
    /\ clock >= MaxClock
    /\ rnd' = RoundAfter(rnd, retireQueue)
    /\ retireQueue' = <<>>
    /\ pc' = "done"
    /\ UNCHANGED <<instructions, simpleFrontEnd, uArchConfig, clock, uops, fused, lams, insts, renOps, sbs, IDQ,
                   RB, issueUops, ren, sched, fe, perf>>

Next ==
    \/ RenamerStep
    \/ ReorderBufferStep
    \/ SchedulerStep
    \/ FrontEndStep
    \/ Tick
    \/ Stop

Spec == Init /\ [][Next]_vars

---------------------------------------------------------------------------
(* Properties of the simulation.                                           *)

\* the unfused uops that go through the scheduler
Executing(u) == PropOf(uops[u]).ports # <<>> /\ ~uops[u].eliminated

\* a fused uop injected by the pipeline: a register-merge or a stack-sync uop
Injected(f) == uops[fused[f].uops[1]].kind # "own"

\* program order of fused uops: by instruction instance; inside an instance the
\* injected uops come before the instruction's own uops, and these are in the
\* order of the instruction's uop list
Precedes(f1, f2) ==
    LET u1 == uops[fused[f1].uops[1]]
        u2 == uops[fused[f2].uops[1]]
    IN  \/ u1.instrI < u2.instrI
        \/ u1.instrI = u2.instrI /\ u1.kind # "own" /\ u2.kind = "own"
        \/ u1.instrI = u2.instrI /\ u1.kind = "own" /\ u2.kind = "own" /\ u1.pi < u2.pi

\* C1: every unfused uop with possible ports that is not eliminated has
\* issued < dispatched <= executed <= retired; each stamp is only set after the
\* one before it, and no uop is dispatched in the cycle in which it is issued
C1_StampOrder ==
    \A u \in DOMAIN uops :
        Executing(u) =>
            LET f == fused[uops[u].fusedUop]
            IN  /\ uops[u].dispatched # None =>
                    f.issued # None /\ f.issued < uops[u].dispatched
                /\ uops[u].executed # None =>
                    uops[u].dispatched # None /\ uops[u].dispatched <= uops[u].executed
                /\ f.retired # None =>
                    uops[u].executed # None /\ uops[u].executed <= f.retired

\* a uop with ports went through all four stages
C1_Witness ==
    \E u \in DOMAIN uops :
        /\ Executing(u)
        /\ fused[uops[u].fusedUop].retired # None
        /\ uops[u].dispatched = fused[uops[u].fusedUop].issued + IssueDispatchDelay

\* C2: every fused uop that retires was issued in an earlier cycle, also if its
\* unfused uops are eliminated or have no ports, and also merge and sync uops
C2_IssuedBeforeRetired ==
    \A f \in DOMAIN fused :
        fused[f].retired # None => fused[f].issued # None /\ fused[f].issued < fused[f].retired

\* a retired fused uop none of whose uops went through the scheduler, and a
\* retired injected uop
C2_Witness ==
    /\ \E f \in DOMAIN fused :
          /\ fused[f].retired # None
          /\ \A k \in 1..Len(fused[f].uops) : ~Executing(fused[f].uops[k])
    /\ \E f \in DOMAIN fused : fused[f].retired # None /\ Injected(f)

\* C3: a retired fused uop has only unfused uops that finished in an earlier cycle
C3_ExecutedBeforeRetired ==
    \A f \in DOMAIN fused :
        fused[f].retired # None =>
            \A k \in 1..Len(fused[f].uops) :
                /\ uops[fused[f].uops[k]].executed # None
                /\ uops[fused[f].uops[k]].executed < fused[f].retired

\* a micro-fused uop retired one cycle after its last unfused uop finished
C3_Witness ==
    \E f \in DOMAIN fused :
        /\ fused[f].retired # None
        /\ Len(fused[f].uops) > 1
        /\ \E k \in 1..Len(fused[f].uops) :
              uops[fused[f].uops[k]].executed = fused[f].retired - 1

\* C4: retirement follows program order, with retireIdx as the order inside a
\* cycle; register-merge and stack-sync uops included
C4_RetireInOrder ==
    \A f1, f2 \in DOMAIN fused :
        (fused[f1].retired # None /\ fused[f2].retired # None /\ Precedes(f1, f2)) =>
            \/ fused[f1].retired < fused[f2].retired
            \/ fused[f1].retired = fused[f2].retired /\ fused[f1].retireIdx < fused[f2].retireIdx

\* an injected uop and a uop of its instruction retired in the same cycle
C4_Witness ==
    \E f1, f2 \in DOMAIN fused :
        /\ fused[f1].retired # None
        /\ fused[f1].retired = fused[f2].retired
        /\ Injected(f1)
        /\ Precedes(f1, f2)

\* C5: no two unfused uops with the same assigned port are dispatched in the same
\* cycle, uops that use the divider included
C5_OneDispatchPerPort ==
    \A u1, u2 \in DOMAIN uops :
        (u1 # u2 /\ uops[u1].dispatched # None /\ uops[u1].dispatched = uops[u2].dispatched) =>
            uops[u1].actualPort # uops[u2].actualPort

\* C6: at most issueWidth fused uops have the same issue cycle, register-merge
\* uops included
C6_IssueWidth ==
    \A c \in 0..clock :
        Cardinality({f \in DOMAIN fused : fused[f].issued = c}) <= IssueWidth

\* C7: after every cycle the IDQ holds at most IDQWidth laminated uops
C7_IDQBound == pc = "main" => Len(IDQ) <= IDQWidth

\* C8: after every cycle the scheduler holds at most RSWidth unfused uops
C8_RSBound == pc = "main" => Cardinality(sched.uops) <= uArchConfig.RSWidth

\* C9: after every cycle the reorder buffer holds at most RBWidth fused uops, and
\* the renamer has only issued if the reorder buffer had room for issueWidth uops
C9_RBBound ==
    /\ pc = "main" => Len(RB) <= uArchConfig.RBWidth
    /\ (pc = "rb" /\ issueUops # <<>>) => Len(RB) + IssueWidth <= uArchConfig.RBWidth

\* C10: after every cycle the instruction queue holds at most IQWidth
\* instructions, also while a predecoded group waits for a length-changing
\* prefix stall and when a group starts with a partial instruction
C10_IQBound == pc = "main" => Len(fe.instructionQueue) <= IQWidth

\* a whole predecoded group that was held back by a stall is in the queue at the
\* end of a cycle, and an instruction that crossed a 16-byte boundary was predecoded
C10_Witness ==
    /\ pc = "main"
    /\ Len(fe.instructionQueue) >= PreDecodeWidth
    /\ \E i \in Range(fe.instructionQueue) : InstrOf(insts[i]).lcpStall
    /\ \E i \in DOMAIN insts :
          /\ insts[i].predecoded # None
          /\ (insts[i].address % 16) + InstrOf(insts[i]).len > 16

\* the objects RenamedOperand.getReadyCycle reads, in the current state
Cur == [uops |-> uops, renOps |-> renOps, sbs |-> sbs]

\* the load uops that found a store buffer entry when they were renamed
ForwardedLoads == {u \in DOMAIN uops : PropOf(uops[u]).load /\ uops[u].sb # None}

\* C12: the outputs of a load that found a matching store buffer entry are ready
\* no earlier than max(addressReadyCycle, dataReadyCycle) plus the forwarding
\* latency, and their ready cycle is unknown while one of the two is not set;
\* the load finishes and its consumers become ready no earlier than that
C12_StoreForwarding ==
    \A u \in ForwardedLoads :
        \A k \in 1..Len(uops[u].rout) :
            LET sb == sbs[uops[u].sb]
                r == getReadyCycle(Cur, uops[u].rout[k])
                memReady == Max(sb.addressReadyCycle, sb.dataReadyCycle) + StoreForwardingLatency
            IN  /\ (sb.addressReadyCycle = None \/ sb.dataReadyCycle = None) =>
                       r = None /\ uops[u].executed = None
                /\ r # None => r >= memReady
                /\ uops[u].executed # None => uops[u].executed >= memReady
                /\ \A v \in DOMAIN uops :
                       (uops[v].readyForDispatch # None /\ uops[u].rout[k] \in Range(uops[v].rin)) =>
                           uops[v].readyForDispatch >= memReady

\* a load was dispatched before the store it reads from had its data and address,
\* and its output is ready exactly the forwarding latency after them
C12_Witness ==
    \E u \in ForwardedLoads :
        /\ uops[u].rout # <<>>
        /\ uops[u].executed # None
        /\ sbs[uops[u].sb].addressReadyCycle # None /\ sbs[uops[u].sb].dataReadyCycle # None
        /\ getReadyCycle(Cur, uops[u].rout[1])
              = Max(sbs[uops[u].sb].addressReadyCycle, sbs[uops[u].sb].dataReadyCycle)
                  + StoreForwardingLatency
        /\ getReadyCycle(Cur, uops[u].rout[1]) > uops[u].dispatched + 5

\* the executing unfused uops of the fused uops issued in the current cycle
IssuedNow == {u \in DOMAIN uops : uops[u].fusedUop \in Range(issueUops) /\ Executing(u)}

\* what the order renamer, reorder buffer, scheduler, refill leaves behind: after
\* the renamer the uops it issued carry the current cycle and are not yet in the
\* reorder buffer; after the reorder buffer they are in it and have no port yet;
\* after the scheduler they have a port; the IDQ is refilled after all of them
StepEffects ==
    /\ pc = "rb" => \A f \in Range(issueUops) : fused[f].issued = clock /\ f \notin Range(RB)
    /\ pc = "sched" =>
          /\ \A f \in Range(issueUops) : f \in Range(RB)
          /\ \A u \in IssuedNow : uops[u].actualPort = None
    /\ pc \in {"frontend", "main"} => \A u \in IssuedNow : uops[u].actualPort # None
    /\ pc \in {"rb", "sched", "frontend"} =>
          \A l \in DOMAIN lams : lams[l].addedToIDQ # None => lams[l].addedToIDQ < clock

\* C13 (as the code has it): in every cycle each component advances once, in the
\* order renamer, reorder buffer, scheduler, refill of the IDQ
C13_StepOrder ==
    /\ []StepEffects
    /\ [][/\ pc = "renamer" => pc' = "rb"
          /\ pc = "rb" => pc' = "sched"
          /\ pc = "sched" => pc' = "frontend"
          /\ pc = "frontend" => pc' = "main"
          /\ pc = "main" => pc' \in {"renamer", "done"}
          /\ clock' # clock => pc = "main" /\ clock' = clock + 1]_vars

\* uops issued in this cycle have been given a port in the same cycle, and the
\* IDQ was refilled after that
C13_Witness ==
    /\ pc = "main"
    /\ IssuedNow # {}
    /\ \E l \in DOMAIN lams : lams[l].addedToIDQ = clock

\* C13 as stated: the scheduler first, then the reorder buffer, then the renamer,
\* then the refill of the IDQ
C13_SinksFirst ==
    [][/\ pc = "sched" => pc' = "rb"
       /\ pc = "rb" => pc' = "renamer"
       /\ pc = "renamer" => pc' = "frontend"]_vars

\* the ready cycles (>= 0) of the renamed input operands of uop u
InputReadyCycles(u) ==
    {c \in {getReadyCycle(Cur, uops[u].rin[k]) : k \in 1..Len(uops[u].rin)} : c # None /\ c >= 0}

InScheduler ==
    sched.uops \cup sched.readyDivUops \cup sched.pendingUops \cup Range(sched.nonReadyUops)
    \cup UNION {sched.readyQueue[p] : p \in DOMAIN sched.readyQueue}
    \cup UNION {Range(sched.uopsReadyInCycle[c]) : c \in DOMAIN sched.uopsReadyInCycle}
    \cup UNION {Range(sched.dependentUops[p]) : p \in DOMAIN sched.dependentUops}

\* C18: an eliminated uop and a uop without ports never get a port, never enter
\* the scheduler, are never dispatched, and count as executed in the cycle in
\* which their fused uop was issued and appended to the reorder buffer
C18_EliminatedUsesNoPort ==
    \A u \in DOMAIN uops :
        ~Executing(u) =>
            /\ uops[u].actualPort = None
            /\ u \notin InScheduler
            /\ uops[u].readyForDispatch = None
            /\ uops[u].dispatched = None
            /\ uops[u].executed # None => uops[u].executed = fused[uops[u].fusedUop].issued
            /\ (fused[uops[u].fusedUop].issued # None /\ pc # "rb") => uops[u].executed # None

\* an eliminated move and a uop without ports have retired
C18_Witness ==
    /\ \E u \in DOMAIN uops :
          /\ uops[u].eliminated
          /\ fused[uops[u].fusedUop].retired # None
          /\ uops[u].executed = fused[uops[u].fusedUop].issued
    /\ \E u \in DOMAIN uops :
          /\ PropOf(uops[u]).ports = <<>>
          /\ fused[uops[u].fusedUop].retired # None

\* the instances of instructions that are UnknownInstr objects (instrStr = '')
UnknownInstances == {i \in DOMAIN insts : instructions[insts[i].ip].instr.str = ""}

\* the only unfused uop of an instance with one laminated uop, and the fused uop
\* that carries it through the pipeline: the instance's own one, or the one the
\* simple front end wraps around the uop (line 531)
OnlyUop(i) == fused[lams[insts[i].uops[1]].fused[1]].uops[1]
OnlyFused(i) == uops[OnlyUop(i)].fusedUop

\* each instance of an unknown instruction is one laminated uop with one fused
\* uop with one uop without ports, which is executed when issued and retires
\* later, after every fused uop of an instruction before it
UnknownInstrShape ==
    \A i \in UnknownInstances :
        /\ Len(insts[i].uops) = 1
        /\ insts[i].regMergeUops = <<>> /\ insts[i].stackSyncUops = <<>>
        /\ Len(lams[insts[i].uops[1]].fused) = 1
        /\ Len(fused[lams[insts[i].uops[1]].fused[1]].uops) = 1
        /\ fused[OnlyFused(i)].uops = <<OnlyUop(i)>>
        /\ lams[fused[OnlyFused(i)].lam].fused = <<OnlyFused(i)>>
        /\ PropOf(uops[OnlyUop(i)]).ports = <<>>
        /\ uops[OnlyUop(i)].rin = <<>> /\ uops[OnlyUop(i)].rout = <<>>
        /\ uops[OnlyUop(i)].executed # None => uops[OnlyUop(i)].executed = fused[OnlyFused(i)].issued
        /\ fused[OnlyFused(i)].retired # None =>
               /\ uops[OnlyUop(i)].executed # None
               /\ fused[OnlyFused(i)].issued < fused[OnlyFused(i)].retired
               /\ \A u \in DOMAIN uops : uops[u].kind = "own" /\ u < OnlyUop(i) =>
                      /\ fused[uops[u].fusedUop].retired # None
                      /\ fused[uops[u].fusedUop].retired <= fused[OnlyFused(i)].retired

\* a renamer step that issues uops of unknown instructions only
IssuesUnknownOnly ==
    /\ pc = "renamer" /\ pc' = "rb"
    /\ issueUops' # <<>>
    /\ \A f \in Range(issueUops') : uops'[fused'[f].uops[1]].instrI \in UnknownInstances'

\* C19: an unknown instruction becomes one laminated, one fused and one uop
\* without ports, which is executed when it is issued and retires in order;
\* issuing it leaves the rename map as it was
C19_UnknownInstrPassesThrough ==
    /\ []UnknownInstrShape
    /\ [][IssuesUnknownOnly => ren'.renameDict = ren.renameDict]_vars

\* an unknown instruction was issued after the rename map was filled, and retired
C19_Witness ==
    \E i \in UnknownInstances :
        /\ fused[OnlyFused(i)].retired # None
        /\ uops[OnlyUop(i)].executed = fused[OnlyFused(i)].issued
        /\ lams[insts[i].uops[1]].addedToIDQ # None
        /\ DOMAIN ren.renameDict # {}
        /\ \E f \in DOMAIN fused : f < OnlyFused(i) /\ fused[f].retired # None

\* C20: the RSP offset the stack engine tracks stays within 192 of zero, for
\* pushes (negative offsets) as well as for pops (positive offsets)
C20_RSPOffsetMagnitude == fe.RSPOffset >= -192 /\ fe.RSPOffset <= 192

\* the pairs of uops dispatched in the same cycle, the first on port 4 and the
\* second on port 9
PairedStores ==
    {pair \in (DOMAIN uops) \X (DOMAIN uops) :
        /\ uops[pair[1]].actualPort = 4 /\ uops[pair[2]].actualPort = 9
        /\ uops[pair[1]].dispatched # None
        /\ uops[pair[1]].dispatched = uops[pair[2]].dispatched}

\* the fingerprints of two store-buffer entries name the same cache line
SameCacheLine(addr4, addr9) ==
    /\ addr4[1] = addr9[1]
    /\ addr4[2] = addr9[2]
    /\ addr4[3] = addr9[3]
    /\ Abs(addr4[4] - addr9[4]) < 64

RetiredFused == {f \in DOMAIN fused : fused[f].retired # None}
RoundOf(f) == insts[uops[fused[f].uops[1]].instrI].rnd

\* len(uopsForRound) once the retire queue of the cycle is processed
NRounds ==
    IF RetiredFused = {} THEN 0
    ELSE 1 + CHOOSE r \in {RoundOf(f) : f \in RetiredFused} : \A f \in RetiredFused : RoundOf(f) <= r

\* line 2286: the last instruction that is not macro-fused with its predecessor
lastApplicableInstr ==
    CHOOSE i \in DOMAIN instructions :
        /\ ~instructions[i].instr.macroFusedWithPrevInstr
        /\ \A j \in DOMAIN instructions : j > i => instructions[j].instr.macroFusedWithPrevInstr

\* uopsForRound[r][lastApplicableInstr][-1]: the fused uop of that instruction
\* and round that retired last
LastRetired(r) ==
    LET cand == {f \in DOMAIN fused : /\ fused[f].retired # None
                                      /\ RoundOf(f) = r
                                      /\ uops[fused[f].uops[1]].ip = lastApplicableInstr}
    IN  CHOOSE f \in cand : \A g \in cand :
            \/ fused[g].retired < fused[f].retired
            \/ fused[g].retired = fused[f].retired /\ fused[g].retireIdx <= fused[f].retireIdx

\* lines 2287-2293: the rounds the throughput is computed from, as <<first, last>>
RelevantRounds(n) ==
    LET first == n \div 2
        last == n - 2
        same == {r \in (last - 4)..last :
                    fused[LastRetired(first)].retireIdx = fused[LastRetired(r)].retireIdx}
    IN  IF last - first > 10 /\ same # {}
        THEN <<first, CHOOSE r \in same : \A q \in same : q <= r>>
        ELSE <<first, last>>

\* lines 2295-2298: TP as a fraction, cycles over rounds
TPCycles(rel) == fused[LastRetired(rel[2])].retired - fused[LastRetired(rel[1])].retired
TPRounds(rel) == rel[2] - rel[1]

\* the simulation of a chain of ADD RAX, RBX on the machine with the larger buffers
AddChain ==
    /\ uArchConfig = WideConfig
    /\ \A i \in DOMAIN instructions : instructions[i].instr = ADD3

\* the chain in the rounds rel: it is dispatched in consecutive cycles, the last
\* instruction of a round retires as many cycles after that of the round before
\* as the round has instructions, and TP is 1.0 cycle per instruction
SteadyChain(rel) ==
    /\ \A u \in DOMAIN uops :
          (/\ insts[uops[u].instrI].rnd >= rel[1] /\ insts[uops[u].instrI].rnd <= rel[2]
           /\ u + 1 \in DOMAIN uops /\ insts[uops[u + 1].instrI].rnd <= rel[2]) =>
              /\ uops[u].dispatched # None /\ uops[u + 1].dispatched # None
              /\ uops[u + 1].dispatched = uops[u].dispatched + 1
    /\ \A r \in rel[1]..(rel[2] - 1) :
          fused[LastRetired(r + 1)].retired = fused[LastRetired(r)].retired + Len(instructions)
    /\ TPCycles(rel) = TPRounds(rel) * Len(instructions)

\* line 2281: the simulation ends only when a uop of round 10 has retired
MinRounds == 10

\* C17: once a uop of round MinRounds has retired, in the rounds the throughput
\* is computed from a chain of ADD RAX, RBX is dispatched in consecutive cycles,
\* the retire cycle of the last instruction advances by the number of
\* instructions per round, and the throughput is 1.0 cycle per instruction
C17_AddChainThroughput ==
    (AddChain /\ NRounds > MinRounds) => SteadyChain(RelevantRounds(NRounds))

\* the throughput of the chain is computed after more than MinRounds rounds
C17_Witness ==
    /\ AddChain
    /\ NRounds > MinRounds + 1
    /\ TPCycles(RelevantRounds(NRounds)) = TPRounds(RelevantRounds(NRounds)) * Len(instructions)

\* Renamer.cycle, lines 274-277: the laminated uop at the head of the IDQ holds more
\* fused uops than the renamer issues in a cycle, so that the loop leaves at line
\* 276 with an empty renamerUops
HeadOfIDQTooWide ==
    /\ IDQ # <<>>
    /\ Len(lams[IDQ[1]].fused) > IssueWidth

\* such a laminated uop stays at the head of the IDQ, and no round is completed
StallIsPermanent ==
    [][HeadOfIDQTooWide =>
          /\ HeadOfIDQTooWide'
          /\ Head(IDQ') = Head(IDQ)
          /\ (RB = <<>> => RB' = <<>> /\ rnd' = rnd)]_vars

\* C15: the simulation terminates; in particular no reachable state leaves the
\* renamer permanently unable to issue the uops at the head of the IDQ
C15_NoPermanentStall == ~HeadOfIDQTooWide

\* the uops after Scheduler.cycle when the set pendingUops is traversed in this order
UopsAfterSchedulerCycle(order) ==
    SchedulerCycleProcess(
        SchedulerCycleDispatch(
            [uops |-> uops, fused |-> fused, renOps |-> renOps, sbs |-> sbs, sched |-> sched],
            issueUops, clock),
        order, clock).uops

\* the orders in which processPendingUops may traverse the set in this cycle
PendingOrders ==
    Perms(SchedulerCycleDispatch(
              [uops |-> uops, fused |-> fused, renOps |-> renOps, sbs |-> sbs, sched |-> sched],
              issueUops, clock).sched.pendingUops)

\* the uops that one order marks ready for dispatch in the next cycle, the earliest
\* cycle that getReadyForDispatchCycle returns (line 1287)
ReadyNext(order) ==
    {u \in DOMAIN uops : UopsAfterSchedulerCycle(order)[u].readyForDispatch = clock + 1}

\* the uops that one order leaves without a readyForDispatch cycle; a later cycle
\* gives them clock + 2 at the earliest
NotReadyYet(order) ==
    {u \in DOMAIN uops : UopsAfterSchedulerCycle(order)[u].readyForDispatch = None}

\* C16: the simulation is deterministic: the readyForDispatch cycle of a uop does
\* not depend on the order in which the set pendingUops is traversed
C16_OrderIndependentStamps ==
    pc = "sched" =>
        \A o1 \in PendingOrders : \A o2 \in PendingOrders :
            ReadyNext(o1) \cap NotReadyYet(o2) = {}

\* the first unfused uop of an instance, and the laminated uop that carries it
\* in the IDQ (with the simple front end a laminated uop of its own, line 531)
FirstUopOf(i) == fused[lams[insts[i].uops[1]].fused[1]].uops[1]
FirstLamInIDQ(us, fs, i) == fs[us[FirstUopOf(i)].fusedUop].lam

\* the first uop of instance i has been appended to the IDQ (lines 528-531, 571-574)
AppendedToIDQ(ins, ls, i) ==
    /\ i \in DOMAIN ins
    /\ ins[i].uops # <<>>
    /\ (simpleFrontEnd \/ ls[ins[i].uops[1]].addedToIDQ # None)

\* the instances whose first uop the front end appends in this step
NewlyAppended ==
    {i \in DOMAIN insts' : AppendedToIDQ(insts', lams', i) /\ ~AppendedToIDQ(insts, lams, i)}

\* the instruction reads RSP through an operand that is not an implicit stack operand
ReadsRSP(instr) ==
    \E k \in 1..Len(instr.inRegs \o instr.memAddrRegs) :
        /\ (instr.inRegs \o instr.memAddrRegs)[k].reg = "RSP"
        /\ ~(instr.inRegs \o instr.memAddrRegs)[k].imp

\* laminated uop s is in the queue immediately ahead of laminated uop l
ImmediatelyAhead(idq, s, l) ==
    \E k \in 1..(Len(idq) - 1) : idq[k] = s /\ idq[k + 1] = l

\* the stack-sync uops of the instance: exactly one, of the stack engine, immediately
\* ahead of the instance's first laminated uop
OneSyncAhead(ins, us, fs, ls, idq, i) ==
    /\ Len(ins[i].stackSyncUops) = 1
    /\ ls[ins[i].stackSyncUops[1]].uopSource = "SE"
    /\ ImmediatelyAhead(idq, ins[i].stackSyncUops[1], FirstLamInIDQ(us, fs, i))

\* the front end appends instance i first in this step: the tracked offset of the
\* state before the step is the offset the instance meets
StackSyncRule(i) ==
    LET instr == instructions[insts'[i].ip].instr
    IN  /\ (fe.RSPOffset # 0 /\ ReadsRSP(instr)) =>
               /\ OneSyncAhead(insts', uops', fused', lams', IDQ', i)
               /\ (NewlyAppended = {i} /\ instr.implicitRSPChange <= 192) =>
                      fe'.RSPOffset = instr.implicitRSPChange
        /\ (fe.RSPOffset = 0 /\ instr.implicitRSPChange <= 192) =>
               insts'[i].stackSyncUops = <<>>

SerializingFirst(us, fs, f) ==
    /\ PropOf(us[fs[f].uops[1]]).first
    /\ InstrOf(us[fs[f].uops[1]]).isSerializingInstr

\* C22: the renamer issues no first uop of a serializing instruction in a cycle in
\* which the reorder buffer is not empty when the renamer runs
C22_SerializingWaitsForEmptyRB ==
    [][(pc = "renamer" /\ RB # <<>>) =>
          \A k \in 1..Len(issueUops') : ~SerializingFirst(uops', fused', issueUops'[k])]_vars

\* the renamer has run with room in the reorder buffer and the scheduler, and has
\* left a serializing instruction at the head of the IDQ because of older uops
C22_Witness ==
    /\ pc = "rb"
    /\ RB # <<>>
    /\ ~RBisFull(RB) /\ ~SchedIsFull(sched)
    /\ IDQ # <<>>
    /\ SerializingFirst(uops, fused, lams[Head(IDQ)].fused[1])
    /\ issueUops = <<>>

\* C23: when the first uop of a serializing instruction is issued, every fused uop
\* that precedes it in program order has retired in an earlier cycle
C23_OlderRetiredBeforeSerializing ==
    \A f \in DOMAIN fused : \A g \in DOMAIN fused :
        (fused[f].issued # None /\ SerializingFirst(uops, fused, f)
            /\ fused[g].issued # None /\ Precedes(g, f)) =>
        (fused[g].retired # None /\ fused[g].retired < fused[f].issued)

\* the fused uops of the register-merge uops issued for instance i (line 269)
MergeFused(i) == [k \in 1..Len(insts[i].regMergeUops) |-> lams[insts[i].regMergeUops[k]].fused[1]]

\* the fused uop that holds the first own uop of instance i
FirstOwnFused(i) == uops[FirstUopOf(i)].fusedUop

\* the instances of instructions that declare register-merge uops
MergingInstances ==
    {i \in DOMAIN insts : instructions[insts[i].ip].regMergeProps # <<>> /\ insts[i].uops # <<>>}

\* the merge uops of instance i: single-uop fused units, issued in one cycle in
\* which nothing else is issued
MergeUopsIssuedAlone(i) ==
    \A k \in 1..Len(MergeFused(i)) :
        /\ Len(lams[insts[i].regMergeUops[k]].fused) = 1
        /\ Len(fused[MergeFused(i)[k]].uops) = 1
        /\ \A g \in DOMAIN fused :
               fused[g].issued = fused[MergeFused(i)[k]].issued => g \in Range(MergeFused(i))

\* C24: the register-merge uops of an instance are issued exactly once, each as a
\* fused uop of its own, in a cycle in which nothing else is issued, strictly before
\* the first own uop of the instance
C24_MergeUopsIssuedOnce ==
    \A i \in MergingInstances :
        /\ Len(insts[i].regMergeUops) <= Len(instructions[insts[i].ip].regMergeProps)
        /\ MergeUopsIssuedAlone(i)
        /\ fused[FirstOwnFused(i)].issued # None =>
               /\ Len(insts[i].regMergeUops) = Len(instructions[insts[i].ip].regMergeProps)
               /\ \A k \in 1..Len(MergeFused(i)) :
                      fused[MergeFused(i)[k]].issued < fused[FirstOwnFused(i)].issued

\* the eliminated moves of the window of moveEliminationPipelineLength active
\* cycles that ends with active cycle a
ElimInWindow(inCycle, a) ==
    SumSeq([i \in 1..MoveEliminationPipelineLength |-> Get(inCycle, a - i + 1, 0)])

MoveElimWindows ==
    \A a \in 1..ren.renamerActiveCycle :
        /\ ElimInWindow(ren.nGPRMoveElimInCycle, a) <= MoveEliminationGPRSlots
        /\ ElimInWindow(ren.nSIMDMoveElimInCycle, a) <= MoveEliminationSIMDSlots

\* an own uop of a move that may be eliminated, with a source register of this class
EliminableMove(us, u, simd) ==
    /\ us[u].kind = "own"
    /\ InstrOf(us[u]).mayBeEliminated
    /\ IsSIMD(InstrOf(us[u]).inRegs[1].reg) = simd

\* the slots left for the j-th unfused uop that the renamer issues in this step:
\* the slots, minus the eliminations before it in this cycle and in the previous
\* (length - 1) active cycles, minus the multi-use count of length active cycles ago
SlotsLeft(issued, j, simd, slots, inCycle, useInCycle) ==
    slots
      - Cardinality({k \in 1..(j - 1) : EliminableMove(uops', issued[k], simd)
                                         /\ uops'[issued[k]].eliminated})
      - SumSeq([i \in 1..(MoveEliminationPipelineLength - 1) |->
                   Get(inCycle, ren'.renamerActiveCycle - i, 0)])
      - Get(useInCycle, ren'.renamerActiveCycle - MoveEliminationPipelineLength, 0)

MoveElimRule(issued) ==
    \A j \in 1..Len(issued) :
        /\ EliminableMove(uops', issued[j], FALSE) =>
               (~uops'[issued[j]].eliminated <=>
                   SlotsLeft(issued, j, FALSE, MoveEliminationGPRSlots,
                             ren.nGPRMoveElimInCycle, ren.multiUseGPRDictUseInCycle) <= 0)
        /\ EliminableMove(uops', issued[j], TRUE) =>
               (~uops'[issued[j]].eliminated <=>
                   SlotsLeft(issued, j, TRUE, MoveEliminationSIMDSlots,
                             ren.nSIMDMoveElimInCycle, ren.multiUseSIMDDictUseInCycle) <= 0)

\* C25: in every window of moveEliminationPipelineLength renamer-active cycles at
\* most moveEliminationGPRSlots GPR moves (moveEliminationSIMDSlots vector moves) are
\* eliminated, and a move that may be eliminated is left un-eliminated exactly when
\* no slot is left for it
C25_MoveEliminationSlots ==
    /\ []MoveElimWindows
    /\ [][pc = "renamer" => MoveElimRule(UnfusedOfFused([fused |-> fused'], issueUops'))]_vars

\* a GPR move and a vector move were issued un-eliminated, and moves of both
\* classes were eliminated
C25_Witness ==
    \A simd \in BOOLEAN : \A elim \in BOOLEAN :
        \E u \in DOMAIN uops :
            /\ EliminableMove(uops, u, simd)
            /\ fused[uops[u].fusedUop].issued # None
            /\ uops[u].eliminated = elim

\* the register and flag inputs of a renamed uop (not the pseudo operands)
RegInputs(us, u) == {k \in 1..Len(us[u].rin) : PropOf(us[u]).ins[k] \notin PseudoOps}

\* a regular uop of the instruction instance of u
OwnUopOfInstance(p, u) == uops[p].kind = "own" /\ uops[p].instrI = uops[u].instrI

\* no register input of a regular uop was minted by a regular uop of its instance
NoInputFromOwnInstance ==
    \A u \in DOMAIN uops :
        uops[u].kind = "own" =>
            \A k \in RegInputs(uops, u) :
                renOps[uops[u].rin[k]].uop # None =>
                    ~OwnUopOfInstance(renOps[uops[u].rin[k]].uop, u)

\* the last uop of the instruction instance of p has been renamed
InstanceCommitted(p) ==
    \E l \in DOMAIN uops :
        /\ OwnUopOfInstance(l, p)
        /\ PropOf(uops[l]).last
        /\ fused[uops[l].fusedUop].issued # None

\* renameDict holds operands of committed instructions, of register-merge uops,
\* of stack-sync uops, or initial operands
RenameDictCommitted ==
    \A key \in DOMAIN ren.renameDict :
        \/ renOps[ren.renameDict[key]].uop = None
        \/ uops[renOps[ren.renameDict[key]].uop].kind # "own"
        \/ InstanceCommitted(renOps[ren.renameDict[key]].uop)

\* the regular uops of the first fused uop that the renamer issues in a cycle take
\* their register inputs from renameDict as it was before the cycle
InputsFromRenameDict(first) ==
    \A u \in Range(fused'[first].uops) :
        (uops'[u].kind = "own" /\ ~uops'[u].eliminated) =>
            \A k \in RegInputs(uops', u) :
                IF PropOf(uops'[u]).ins[k] \in DOMAIN ren.renameDict
                THEN uops'[u].rin[k] = ren.renameDict[PropOf(uops'[u]).ins[k]]
                ELSE /\ uops'[u].rin[k] > Len(renOps)
                     /\ renOps'[uops'[u].rin[k]].uop = None

\* C26: a renamed output becomes visible only at the instruction boundary: the
\* register inputs of a regular uop are operands committed by earlier instructions,
\* register-merge uops or stack-sync uops, or initial operands, never outputs of a
\* regular uop of the same instance, also across cycles
C26_OutputsVisibleAtInstrBoundary ==
    /\ [](NoInputFromOwnInstance /\ RenameDictCommitted)
    /\ [][(pc = "renamer" /\ issueUops' # <<>>) => InputsFromRenameDict(issueUops'[1])]_vars

\* two regular uops of one instance issued in different cycles, the later one
\* reading a register that the earlier one writes
C26_Witness ==
    \E u1 \in DOMAIN uops : \E u2 \in DOMAIN uops :
        /\ u1 < u2
        /\ OwnUopOfInstance(u1, u2) /\ uops[u2].kind = "own"
        /\ fused[uops[u1].fusedUop].issued # None
        /\ fused[uops[u2].fusedUop].issued # None
        /\ fused[uops[u1].fusedUop].issued # fused[uops[u2].fusedUop].issued
        /\ \E k \in RegInputs(uops, u2) : \E j \in 1..Len(uops[u1].rout) :
               /\ PropOf(uops[u2]).ins[k] = PropOf(uops[u1]).outs[j].op
               /\ renOps[uops[u2].rin[k]].uop # u1

\* the instruction instances between the store of a StoreBufferEntry and a load
InstancesBetween(entry, l) == (uops[sbs[entry].uops[1]].instrI + 1)..(uops[l].instrI - 1)

\* instance i is not a MOV and writes the base or the index register of mem
RedefinesAddress(i, mem) ==
    /\ ~instructions[insts[i].ip].instr.isMov
    /\ \E k \in 1..Len(instructions[insts[i].ip].instr.outRegs) :
           instructions[insts[i].ip].instr.outRegs[k].reg \in {mem.base, mem.index}

\* C27: an instruction that is not a MOV gives the register it writes a fresh
\* abstract value, also when it has no uops; so a load whose base or index
\* register was redefined by such an instruction after a store never matches
\* that store's StoreBufferEntry
C27_RedefinedAddressNeverMatches ==
    \A l \in DOMAIN uops :
        (PropOf(uops[l]).load /\ uops[l].sb # None) =>
            \A i \in InstancesBetween(uops[l].sb, l) : ~RedefinesAddress(i, PropOf(uops[l]).mem)

\* uop u is marked ready for dispatch in this step of the scheduler
MarkedReady(u) == uops[u].readyForDispatch = None /\ uops'[u].readyForDispatch # None

\* the issued uops among ids that precede u in program order have been executed by
\* the current cycle
OlderExecuted(ids, u) ==
    \A l \in ids :
        (l < u /\ fused[uops[l].fusedUop].issued # None) =>
            (uops'[l].executed # None /\ uops'[l].executed <= clock)

LoadUops == {l \in DOMAIN uops : PropOf(uops[l]).load}
StoreUops == {l \in DOMAIN uops : PropOf(uops[l]).sta \/ PropOf(uops[l]).std}

\* C28: when the first uop of a load-serializing instruction is marked ready in
\* cycle c, it is the head of the load-fence queue and every issued load uop before
\* it in program order has been executed by cycle c
C28_LoadFenceWaitsForOlderLoads ==
    [][pc = "sched" =>
          \A u \in DOMAIN uops :
              (MarkedReady(u) /\ PropOf(uops[u]).first /\ InstrOf(uops[u]).isLoadSerializing) =>
                  /\ sched'.pendingLoadFenceUops # <<>>
                  /\ Head(sched'.pendingLoadFenceUops) = u
                  /\ OlderExecuted(LoadUops, u)]_vars

\* C29: when the first uop of a store-serializing instruction is marked ready in
\* cycle c, it is the head of the store-fence queue and every issued store-address
\* and store-data uop before it in program order has been executed by cycle c
C29_StoreFenceWaitsForOlderStores ==
    [][pc = "sched" =>
          \A u \in DOMAIN uops :
              (MarkedReady(u) /\ PropOf(uops[u]).first /\ InstrOf(uops[u]).isStoreSerializing) =>
                  /\ sched'.pendingStoreFenceUops # <<>>
                  /\ Head(sched'.pendingStoreFenceUops) = u
                  /\ OlderExecuted(StoreUops, u)]_vars

\* the first uops of the load-serializing (store-serializing) instructions
LoadFences == {f \in DOMAIN uops : PropOf(uops[f]).first /\ InstrOf(uops[f]).isLoadSerializing}
StoreFences == {f \in DOMAIN uops : PropOf(uops[f]).first /\ InstrOf(uops[f]).isStoreSerializing}

\* a uop among ids that follows a fence in program order and is ready for dispatch
\* is ready strictly after the fence was executed
ReadyAfterFence(ids, fences) ==
    \A l \in ids : \A f \in fences :
        (f < l /\ uops[l].readyForDispatch # None /\ fused[uops[f].fusedUop].issued # None) =>
            (uops[f].executed # None /\ uops[l].readyForDispatch > uops[f].executed)

\* no uop among ids is marked ready in a step in which a fence that precedes it in
\* program order is in the queue
NotReadyWhilePending(ids, before, after) ==
    \A l \in ids :
        MarkedReady(l) =>
            \A f \in Range(before) \cup Range(after) : l < f

ReadyFirstUops ==
    {u \in DOMAIN uops : /\ uops[u].kind = "own"
                          /\ PropOf(uops[u]).first
                          /\ InstrOf(uops[u]).TP # None
                          /\ uops[u].readyForDispatch # None}

\* C31: if a first uop of an instruction string with throughput TP is ready for
\* dispatch in cycle r, no other first uop of that string is ready for dispatch in
\* the cycles r .. r + TP - 1
C31_ThroughputWindow ==
    \A u1 \in ReadyFirstUops : \A u2 \in ReadyFirstUops \ {u1} :
        InstrOf(uops[u1]).str = InstrOf(uops[u2]).str =>
            ~(/\ uops[u1].readyForDispatch <= uops[u2].readyForDispatch
              /\ uops[u2].readyForDispatch < uops[u1].readyForDispatch + InstrOf(uops[u1]).TP)

\* the maximum ready cycle of the renamed inputs of uop u after this step, -1 without inputs
MaxInputReady(u) ==
    SeqMax([k \in 1..Len(uops'[u].rin) |->
               getReadyCycle([uops |-> uops', renOps |-> renOps', sbs |-> sbs'], uops'[u].rin[k])], -1)

\* issued + issueDispatchDelay of uop u
DispatchDelayBoundary(u) == fused[uops[u].fusedUop].issued + IssueDispatchDelay

\* the ready cycle before the max with clock + 1, with the one-cycle bump for the
\* input ready cycles m in bumped
ReadyCycleRule(m, b, bumped) ==
    IF m < b THEN b ELSE IF m \in bumped THEN m + 1 ELSE m

\* C32 (as the code has it): a uop marked ready in cycle clock gets readyForDispatch
\* max(clock + 1, R) with R = b if m < b, R = m + 1 if m = b or m = b + 1, and
\* R = m if m > b + 1, for m the maximum input ready cycle and b = issued + issueDispatchDelay
C32_ReadyForDispatchCycle ==
    [][pc = "sched" =>
          \A u \in DOMAIN uops :
              MarkedReady(u) =>
                  uops'[u].readyForDispatch =
                      Max(clock + 1,
                          ReadyCycleRule(MaxInputReady(u), DispatchDelayBoundary(u),
                                         {DispatchDelayBoundary(u), DispatchDelayBoundary(u) + 1}))]_vars

\* C32 as stated: the one-cycle bump applies only for m = b
C32_BumpOnlyAtBoundary ==
    [][pc = "sched" =>
          \A u \in DOMAIN uops :
              MarkedReady(u) =>
                  uops'[u].readyForDispatch =
                      Max(clock + 1,
                          ReadyCycleRule(MaxInputReady(u), DispatchDelayBoundary(u),
                                         {DispatchDelayBoundary(u)}))]_vars

\* a uop that is ready for dispatch and whose latest input is ready d cycles
\* after issued + issueDispatchDelay
ReadyWithInputAt(u, d) ==
    /\ uops[u].readyForDispatch # None
    /\ uops[u].rin # <<>>
    /\ SeqMax([k \in 1..Len(uops[u].rin) |-> getReadyCycle(Cur, uops[u].rin[k])], -1)
           = fused[uops[u].fusedUop].issued + IssueDispatchDelay + d

\* uops whose latest input is ready before, at, one cycle after and two cycles
\* after the boundary; the two in the middle got the additional cycle
C32_Witness ==
    /\ \E u \in DOMAIN uops : ReadyWithInputAt(u, -1)
    /\ \E u \in DOMAIN uops :
           /\ ReadyWithInputAt(u, 0)
           /\ uops[u].readyForDispatch = fused[uops[u].fusedUop].issued + IssueDispatchDelay + 1
    /\ \E u \in DOMAIN uops :
           /\ ReadyWithInputAt(u, 1)
           /\ uops[u].readyForDispatch = fused[uops[u].fusedUop].issued + IssueDispatchDelay + 2
    /\ \E u \in DOMAIN uops :
           /\ ReadyWithInputAt(u, 2)
           /\ uops[u].readyForDispatch = fused[uops[u].fusedUop].issued + IssueDispatchDelay + 2

\* the uops that use the divider
DivUops == {u \in DOMAIN uops : PropOf(uops[u]).div > 0}

\* the divider uops dispatched in this step of the scheduler
DivUopsDispatchedNow == {u \in DivUops : uops[u].dispatched = None /\ uops'[u].dispatched # None}

\* no divider uop is dispatched in the cycles c .. c + divCycles - 1 of another one
\* dispatched in cycle c
DividerWindows ==
    \A u1 \in DivUops : \A u2 \in DivUops \ {u1} :
        (uops[u1].dispatched # None /\ uops[u2].dispatched # None) =>
            ~(/\ uops[u1].dispatched <= uops[u2].dispatched
              /\ uops[u2].dispatched < uops[u1].dispatched + PropOf(uops[u1]).div)

\* C33: the divider is used by one uop at a time: a divider uop is dispatched only
\* in a cycle in which the busy counter (after its decrement at the start of the
\* cycle) is 0, at most one is dispatched per cycle, and none in the divCycles - 1
\* cycles after the dispatch of another one
C33_DividerOneAtATime ==
    /\ []DividerWindows
    /\ [][(pc = "sched" /\ DivUopsDispatchedNow # {}) =>
              /\ Max(0, sched.divBusy - 1) = 0
              /\ Cardinality(DivUopsDispatchedNow) = 1
              /\ sched'.divBusy = PropOf(uops[CHOOSE u \in DivUopsDispatchedNow : TRUE]).div]_vars

\* a divider uop waits in the heap while the divider is busy with an earlier one
C33_Witness ==
    /\ sched.divBusy > 0
    /\ sched.readyDivUops # {}
    /\ \E u \in DivUops : uops[u].dispatched # None

\* the uops of a set or list that are assigned to port p
AssignedTo(S, p) == Cardinality({u \in S : uops[u].actualPort = p})

\* C34: at the end of every scheduler cycle the port-usage counter of every port
\* is the number of uops assigned to the port that wait in the scheduler plus the
\* number of uops assigned to it that were dispatched in the current cycle, and
\* it is never negative
C34_PortUsageCounter ==
    \A p \in DOMAIN sched.portUsage :
        /\ sched.portUsage[p] >= 0
        /\ sched.portUsage[p] = AssignedTo(sched.uops, p)
                                   + AssignedTo(Range(sched.uopsDispatchedInPrevCycle), p)

\* a port with a uop that waits in the scheduler and a uop dispatched in this cycle
C34_Witness ==
    \E p \in DOMAIN sched.portUsage :
        /\ AssignedTo(sched.uops, p) > 0
        /\ AssignedTo(Range(sched.uopsDispatchedInPrevCycle), p) > 0
        /\ sched.portUsage[p] >= 2

\* the uops whose possible ports are exactly the pair <<a, b>>
PairUops(a, b) == {u \in DOMAIN uops : PropOf(uops[u]).ports = <<a, b>>}

\* the assigned uops of the pair have the ports a, b, a, b, ... in issue order
Alternates(a, b) ==
    \A u \in PairUops(a, b) :
        uops[u].actualPort # None =>
            uops[u].actualPort =
                IF Cardinality({v \in PairUops(a, b) : v < u}) % 2 = 0 THEN a ELSE b

\* a uop of the pair issued in this cycle got the port that had the higher usage
\* counter at the start of the cycle
AgainstUsage(a, b) ==
    \E u \in PairUops(a, b) \cap Range(UnfusedOfFused([fused |-> fused], issueUops)) :
        /\ uops[u].actualPort # None
        /\ \E q \in {a, b} :
               sched.portUsageAtStartOfCycle[uops[u].actualPort] > sched.portUsageAtStartOfCycle[q]

\* C35: the uops whose possible ports are exactly 2 and 3 get the ports 2, 3, 2,
\* 3, ... in issue order, whatever the usage counters are; the same holds for the
\* pairs 4, 9 and 7, 8 (which only a machine with 10 ports has)
C35_PairsAlternate == Alternates(2, 3) /\ Alternates(4, 9) /\ Alternates(7, 8)

\* on a machine with 10 ports, store uops have got both ports of the pairs 4, 9
\* and 7, 8, and one issued in this cycle got its port against the usage counters
C35_Witness ==
    /\ pc = "frontend"
    /\ \A pair \in {<<4, 9>>, <<7, 8>>} : \A k \in 1..2 :
           \E u \in PairUops(pair[1], pair[2]) : uops[u].actualPort = pair[k]
    /\ AgainstUsage(4, 9) \/ AgainstUsage(7, 8)

\* every assigned port is one of the possible ports of the uop
PortIsAllowed ==
    \A u \in DOMAIN uops :
        uops[u].actualPort # None => uops[u].actualPort \in Range(PropOf(uops[u]).ports)

\* the ready queue of a port holds only uops assigned to it, the divider heap
\* only divider uops, and no uop is in two of them
OnlyInOwnQueue ==
    /\ \A p \in DOMAIN sched.readyQueue : \A u \in sched.readyQueue[p] :
           uops[u].actualPort = p /\ u \notin sched.readyDivUops
    /\ \A u \in sched.readyDivUops : uops[u].actualPort # None /\ PropOf(uops[u]).div > 0

NewInIDQ == SubSeq(IDQ', Len(IDQ) + 1, Len(IDQ'))

\* the predecoder and the decoder do not advance: their queues and stall counter
\* keep their contents (new 16-byte blocks may be queued behind the old ones)
LegacyPathIdle ==
    /\ fe'.instructionQueue = fe.instructionQueue
    /\ fe'.preDecQueue = fe.preDecQueue
    /\ fe'.pdStalled = fe.pdStalled
    /\ fe'.partialInstrI = fe.partialInstrI
    /\ Len(fe.B16BlockQueue) <= Len(fe'.B16BlockQueue)
    /\ fe.B16BlockQueue = SubSeq(fe'.B16BlockQueue, 1, Len(fe.B16BlockQueue))
    /\ \A i \in DOMAIN insts :
           insts'[i].predecoded = insts[i].predecoded /\ insts'[i].removedFromIQ = insts[i].removedFromIQ

\* new holds the uops that left the sequencer: none if it was stalled, otherwise
\* at most 4 from the head of its queue, in their order
FromSequencer(new) ==
    /\ \A k \in 1..Len(new) : lams'[new[k]].uopSource = "MS"
    /\ IF fe.MSstalled # 0 THEN new = <<>>
       ELSE /\ Len(new) <= 4
            /\ new = SubSeq(fe.MSuopQueue, 1, Len(new))
            /\ fe'.MSuopQueue = SubSeq(fe.MSuopQueue, Len(new) + 1, Len(fe.MSuopQueue))

\* every stack-sync uop among the new uops stands directly in front of the first
\* uop of the instruction instance it belongs to
SyncBeforeFirstUop(new) ==
    \A k \in 1..Len(new) :
        lams'[new[k]].uopSource = "SE"
        => /\ k < Len(new)
           /\ LET after == [uops |-> uops', fused |-> fused', lams |-> lams']
                  u == UnfusedOfLam(after, new[k + 1])[1]
                  sync == UnfusedOfLam(after, new[k])[1]
              IN  PropOf(uops'[u]).first /\ uops'[u].instrI = uops'[sync].instrI

FusedOfInstance(i) == Flatten([k \in 1..Len(insts[i].uops) |-> lams[insts[i].uops[k]].fused])

\* the unfused uops below the laminated uops of an instruction instance
UnfusedOfInstance(i) == Flatten([k \in 1..Len(FusedOfInstance(i)) |-> fused[FusedOfInstance(i)[k]].uops])

\* the lamination tree holds every uop of the instance once, in the order of
\* the UopPropertiesList
TreeInOrder(i) ==
    /\ Len(UnfusedOfInstance(i)) = Len(instructions[insts[i].ip].props)
    /\ \A k \in 1..Len(UnfusedOfInstance(i)) :
           /\ uops[UnfusedOfInstance(i)[k]].instrI = i
           /\ uops[UnfusedOfInstance(i)[k]].kind = "own"
           /\ uops[UnfusedOfInstance(i)[k]].pi = k

\* C39: the lamination tree of an instruction instance with uops holds its
\* uops in order, every fused uop has one or two unfused uops, and there are
\* retireSlots fused uops
C39_FusedUopSize ==
    \A i \in DOMAIN insts :
        insts[i].uops # <<>>
        => /\ TreeInOrder(i)
           /\ \A k \in 1..Len(FusedOfInstance(i)) : Len(fused[FusedOfInstance(i)[k]].uops) \in {1, 2}
           /\ Len(FusedOfInstance(i)) = InstrOf(insts[i]).retireSlots

\* the instruction instances of the first round, in program order
FirstRound == SelectSeq([i \in 1..Len(insts) |-> i], LAMBDA i : insts[i].rnd = 0)

\* the instances of the first round that start in the k-th block of the size of
\* a DSB block
FirstRoundBlock(k) ==
    SelectSeq(FirstRound, LAMBDA i : insts[i].address \div DSBBlockSize = k)

LSDEligible(instr) ==
    /\ instr.uopsMS = 0
    /\ instr.implicitRSPChange = 0
    /\ \A j \in 1..Len(instr.inRegs) : ~instr.inRegs[j].h8
    /\ \A j \in 1..Len(instr.outRegs) : ~instr.outRegs[j].h8

\* the conditions under which the loop stream detector delivers the loop
LSDConditions ==
    /\ uArchConfig.LSDEnabled
    /\ \A j \in 1..Len(instructions) : LSDEligible(instructions[j].instr)
    /\ \A k \in 0..(64 \div DSBBlockSize) * Len(instructions) :
           FirstRoundBlock(k) # <<>> => canBeCached([insts |-> insts], FirstRoundBlock(k))
    /\ SumSeq([j \in 1..Len(FirstRound) |-> Len(insts[FirstRound[j]].uops)]) <= IDQWidth

\* C38: in loop mode with the full front end the source is the LSD exactly if
\* the LSD is enabled, all instructions are eligible, all blocks of the first
\* round can be cached and the laminated uops of the first round fit into the
\* IDQ; the source stays the LSD and all uops in the IDQ carry the source LSD
C38_LSDAdmission ==
    /\ [](~unroll /\ ~simpleFrontEnd
          => /\ fe.uopSource = "LSD" <=> LSDConditions
             /\ fe.uopSource = "LSD" => \A k \in 1..Len(IDQ) : lams[IDQ[k]].uopSource = "LSD")
    /\ [][fe.uopSource = "LSD" => fe'.uopSource = "LSD"]_vars

\* the LSD has refilled the IDQ with the uops of a later round
C38_Witness ==
    /\ fe.uopSource = "LSD"
    /\ pc = "main"
    /\ \E k \in 1..Len(IDQ) :
          /\ lams[IDQ[k]].uopSource = "LSD"
          /\ insts[uops[UnfusedOfLam([lams |-> lams, fused |-> fused], IDQ[k])[1]].instrI].rnd >= 2

\* the laminated uop belongs to the uops of an instruction instance (it is not
\* a stack-sync or register-merge uop)
IsRegular(l) == uops[fused[lams[l].fused[1]].uops[1]].kind = "own"
InstOfLam(l) == uops[fused[lams[l].fused[1]].uops[1]].instrI

\* the next and the previous laminated uop in program order: by round, by the
\* position of the instruction, by the position of the uop
NextRegular(l) ==
    IF l # insts[InstOfLam(l)].uops[Len(insts[InstOfLam(l)].uops)] THEN l + 1
    ELSE IF InstOfLam(l) < Len(insts) THEN insts[InstOfLam(l) + 1].uops[1]
    ELSE None
PrevRegular(l) ==
    IF l # insts[InstOfLam(l)].uops[1] THEN l - 1
    ELSE IF InstOfLam(l) > 1 THEN insts[InstOfLam(l) - 1].uops[Len(insts[InstOfLam(l) - 1].uops)]
    ELSE None

\* the laminated uop was taken from the IDQ by the renamer
LamIssued(l) == fused[lams[l].fused[1]].issued # None

\* the laminated uops of the instances that are in the IDQ, in its order
RegularInIDQ == SelectSeq(IDQ, IsRegular)

\* a uop is issued after its predecessor in program order: in a later cycle, or
\* behind it in the same cycle
IssuedInOrder ==
    pc = "rb"
    => \A k \in 1..Len(issueUops) :
          (IsRegular(fused[issueUops[k]].lam) /\ PrevRegular(fused[issueUops[k]].lam) # None)
          => /\ LamIssued(PrevRegular(fused[issueUops[k]].lam))
             /\ \A j \in k..Len(issueUops) :
                    fused[issueUops[j]].lam # PrevRegular(fused[issueUops[k]].lam)

\* the uops in the IDQ are those that follow the issued uops in program order,
\* without a gap and each of them once
InProgramOrder ==
    /\ \A k \in 1..Len(IDQ) : ~LamIssued(IDQ[k])
    /\ \A k \in 1..(Len(RegularInIDQ) - 1) : RegularInIDQ[k + 1] = NextRegular(RegularInIDQ[k])
    /\ RegularInIDQ # <<>>
       => PrevRegular(RegularInIDQ[1]) = None \/ LamIssued(PrevRegular(RegularInIDQ[1]))

\* the front end appends to the IDQ, the renamer removes from its head, and no
\* other step changes it
IDQisFIFO ==
    /\ pc = "frontend" => Len(IDQ') >= Len(IDQ) /\ SubSeq(IDQ', 1, Len(IDQ)) = IDQ
    /\ pc = "renamer" => Len(IDQ') <= Len(IDQ) /\ IDQ' = SubSeq(IDQ, Len(IDQ) - Len(IDQ') + 1, Len(IDQ))
    /\ pc \notin {"frontend", "renamer"} => IDQ' = IDQ

\* C40: with the full front end every laminated uop of an instruction instance
\* enters the IDQ once, the uops enter and leave it in program order, and the
\* IDQ is a queue between the front end and the renamer.  The code does not keep
\* the order: after a microcoded instruction from the DSB, the last uop handed
\* over by DSB.cycle is not the last uop of its instruction, the test of line 562
\* is skipped, and the DSB goes on with the next round although the rest of the
\* round waits in the MITE queues.
C40_IDQProgramOrder ==
    /\ [](~simpleFrontEnd => InProgramOrder /\ IssuedInOrder)
    /\ [][~simpleFrontEnd => IDQisFIFO]_vars

====
